---- MODULE Spec2Model ----
(***************************************************************************)
(* A model of the concurrency core of nanogrip: the message bus, the agent *)
(* loop with its sessions, the subagent manager and the cron scheduler.    *)
(*                                                                         *)
(* Go strings that the code inspects (channel names, chat ids, session     *)
(* keys) are sequences of tokens; the token ":" is the separator that      *)
(* strings.Index looks for.  Message contents are only compared for        *)
(* equality and are TLA+ strings.                                          *)
(***************************************************************************)
EXTENDS Integers, Sequences, FiniteSets, TLC

(***************************************************************************)
(* Bounds of the model.                                                    *)
(***************************************************************************)
MaxBuffer == 2        \* largest bufferSize handed to bus.New
MaxPublish == 3       \* successful publishes recorded, both queues together
MaxCloseCalls == 2    \* calls of MessageBus.Close
MaxClock == 4         \* the clock stops here
MaxJobs == 2          \* jobs added to the scheduler
MaxEvery == 2         \* longest interval of an every-job, in ticks
SecondsPerTick == 10  \* length of a clock tick
MaxTasks == 2         \* subagent tasks spawned
MaxIterations == 2    \* maxIterations of the subagent manager
MaxIdClock == 2       \* the task-id clock stops here
MaxTurns == 2         \* turns the agent loop starts

VARIABLES
    \* ---- bus.MessageBus
    bufferSize,       \* the bufferSize New was called with
    inbound,          \* chan InboundMessage: the buffered messages, oldest first
    outbound,         \* chan OutboundMessage
    inboundClosed,    \* close(b.inbound) has run
    outboundClosed,   \* close(b.outbound) has run
    busDone,          \* b.ctx is cancelled
    closePc,          \* position of the goroutine that calls Close
    closeCalls,       \* number of Close calls started
    crashed,          \* "none", or the unrecovered panic that ended the process
    consumerDone,     \* per consumer: the ctx it passes to Consume* is cancelled
    \* ---- observation of the bus (history)
    pubIn,            \* inbound messages whose publish returned nil, in order
    pubOut,
    conIn,            \* [msg, by]: messages received from the inbound queue
    conOut,
    lastOp,           \* [op, err]: the call that made the last step and what it returned
    \* ---- cron.CronService
    clock,            \* time.Now(), in ticks
    jobObjs,          \* the Job objects created so far; a job's id is its index
    cronJobs,         \* c.jobs: the ids in the by-id map
    cronHeap,         \* c.heap: job ids, a binary min-heap on NextRun
    cronPc,           \* position of the runLoop goroutine
    cronNow,          \* the `now` the running checkAndRun sampled (0 outside a pass)
    cronWake,         \* the instant the pending time.After fires (0 when none is pending)
    cronStopped,      \* stopChan is closed
    \* ---- observation of the scheduler (history)
    launches,         \* per job id: the instants its executions were launched
    removed,          \* ids that RemoveJob took out of the map
    \* ---- subagent.SubagentManager
    idClock,          \* time.Now().UnixNano() cut to its first 8 hex digits
    subTasks,         \* the subagentTask objects and their goroutines; index = spawn order
    runningTasks,     \* s.runningTasks: task id -> index of the task object stored under it
    \* ---- agent.AgentLoop and session.SessionManager
    sessObjs,         \* the Session objects created so far: [Key, Messages, LastConsolidated]
    cache,            \* sm.cache: session key -> index of a Session object
    accessOrder,      \* sm.accessOrder
    disk,             \* the sessions directory: file name -> the lines of the file
    toolContext,      \* per tool (message, spawn, cron): the channel and chat id it was last given
    workers,          \* per goroutine that runs processMessage: its position and locals
    turns,            \* turns started so far
    \* ---- observation of the agent loop (history)
    agentSent,        \* [in, out]: replies the loop published, with the message they answer
    added,            \* per session file: the entries it held at start, then the entries
                      \* AddMessage was called with for its key, in call order
    \* ---- callers of the session manager and of memory consolidation (history)
    smCalls,          \* calls made so far
    smLast,           \* [op, key, sess, result]: the last call and what it returned
    memoryWrites,     \* executions of the save_memory tool
    touched,          \* the keys GetOrCreate returned a session for, least recent first
    \* ---- memory consolidation in its goroutine
    consolidating,    \* a.consolidating: the session keys whose flag is set
    consolidations,   \* the goroutines that run consolidateMemory and wait for their
                      \* Chat call, oldest first: [key, sess, endConsolidate]
    resetKeys,        \* (history) the keys a "/new" has completed for
    \* ---- tools.ToolRegistry and the tools registered in it
    tools,            \* r.tools: tool name -> the registered tool (NoTool: no entry)
    messageChan,      \* the channel the message tool sends its JSON messages on
    \* ---- observation of the registry (history)
    toolRuns,         \* [name, params]: the calls of a tool's Execute, in order
    toolLast,         \* [op, name, params, result]: the last registry call and its result
    \* ---- observation of the channel adapters (history)
    sentTo,           \* [channel, msg]: the calls of an adapter's Send, in order
    \* ---- the channel adapters
    allowFrom,        \* per adapter: the allowFrom it was constructed with
    \* ---- tools.FilesystemTool
    fsTool,           \* [workspace, restrict]: what NewFilesystemTool was called with
    \* ---- observation of the filesystem tool (history)
    fsOps,            \* [operation, path]: the file operations run, in order
    fsLast,           \* [params, err, calls]: the last Execute call and its error
    \* ---- calls of SessionManager.Save in progress
    saving,           \* per caller: [pc, sess, offset, next, out] of its call of Save
    \* ---- TelegramChannel: pollUpdates and the goroutines it starts
    pollPc,           \* position of pollUpdates: "loop", "getUpdates", "exited"
    pollRunning,      \* c.running
    delay,            \* the local delay of pollUpdates, in seconds
    polls,            \* calls of getUpdates made
    slept,            \* (history) [err, was, delay]: the sleeps after a poll error
    handlers,         \* the updates whose handleUpdate goroutine has not run yet
    \* ---- runGateway: the owner of the process and the goroutines it tracks
    gwPc,             \* 0: in runCLI; n: about to do step n of the shutdown
    rootDone,         \* the root ctx is cancelled
    gwSteps,          \* (history) the shutdown steps done, in order
    wgRunning,        \* the goroutines counted in wg that have not returned
    executed,         \* (history) job ids: the cron job goroutines that have run
    \* ---- a call of splitMessage of package channels
    splitIn,          \* (history) the text the call was given
    splitMax,         \* maxLen of the call
    splitText,        \* the local text: what is left to split
    splitParts,       \* the local parts
    splitPc           \* "idle", "loop", "returned"

busVars == <<bufferSize, inbound, outbound, inboundClosed, outboundClosed, busDone,
             closePc, closeCalls, crashed, consumerDone, pubIn, pubOut, conIn,
             conOut, lastOp>>

cronVars == <<clock, jobObjs, cronJobs, cronHeap, cronPc, cronNow, cronWake, cronStopped,
              launches, removed>>

subVars == <<idClock, subTasks, runningTasks>>

agentVars == <<sessObjs, cache, accessOrder, disk, toolContext, workers, turns, agentSent,
               added>>

sessVars == <<smCalls, smLast, memoryWrites, touched>>

fsVars == <<fsTool, fsOps, fsLast>>

consVars == <<consolidating, consolidations, resetKeys>>

saveVars == <<saving>>

pollVars == <<pollPc, pollRunning, delay, polls, slept, handlers>>

splitVars == <<splitIn, splitMax, splitText, splitParts, splitPc>>

telegramVars == <<pollVars, splitVars>>

gwVars == <<gwPc, rootDone, gwSteps, wgRunning, executed>>

toolVars == <<tools, messageChan, toolRuns, toolLast, sentTo, allowFrom, fsTool, fsOps,
              fsLast>>

vars == <<busVars, cronVars, subVars, agentVars, sessVars, toolVars, consVars, saveVars, telegramVars, gwVars>>

\* what an action of one component leaves alone in the others
nonBusVars == <<cronVars, subVars, agentVars, sessVars, toolVars, consVars, saveVars, telegramVars, gwVars>>
nonCronVars == <<busVars, subVars, agentVars, sessVars, toolVars, consVars, saveVars, telegramVars, gwVars>>
nonSubVars == <<busVars, cronVars, agentVars, sessVars, toolVars, consVars, saveVars, telegramVars, gwVars>>
nonAgentVars == <<cronVars, subVars, sessVars, toolVars, consVars, saveVars, telegramVars, gwVars>>

(***************************************************************************)
(* Strings and messages.                                                   *)
(***************************************************************************)
EmptyStr == <<>>
Colon == ":"
Str(tok) == <<tok>>

\* bus.InboundMessage (the fields the core reads)
InMsg(channel, sender, chat, content) ==
    [Channel |-> channel, SenderID |-> sender, ChatID |-> chat, Content |-> content]

\* bus.OutboundMessage
OutMsg(channel, chat, content, fromCron) ==
    [Channel |-> channel, ChatID |-> chat, Content |-> content, FromCron |-> fromCron]

\* the zero values a receive from a closed, drained channel yields
ZeroInbound == InMsg(EmptyStr, EmptyStr, EmptyStr, "")
ZeroOutbound == OutMsg(EmptyStr, EmptyStr, "", FALSE)

Consumers == {"c1", "c2"}

\* messages the bus clients of SpecBus publish
TestInbound == {InMsg(Str("cli"), Str("user"), Str("direct"), "a"),
                InMsg(Str("slack"), Str("U1"), Str("C1"), "b")}
TestOutbound == {OutMsg(Str("cli"), Str("direct"), "x", FALSE),
                 OutMsg(Str("slack"), Str("C1"), "y", FALSE)}

(***************************************************************************)
(* The bus: heartbeat.go holds package bus (lines 158-482).                *)
(***************************************************************************)

\* A faulty non-blocking send: the default branch is missing, the message is
\* buffered whatever the queue holds.
TrySendUnbounded(queue, chClosed, done, cap, msg) ==
    {[err |-> "nil", queue |-> Append(queue, msg)]}

\* select { case ch <- msg: return nil; case <-b.ctx.Done(): return b.ctx.Err();
\*          default: return ErrBusFull }
\* The outcomes Go's select can produce: it picks uniformly among the ready
\* cases, a send on a closed channel is ready and panics, default runs only
\* when no case is ready.
TrySend(queue, chClosed, done, cap, msg) ==
    LET sendReady == chClosed \/ Len(queue) < cap
    IN  (IF chClosed THEN {[err |-> "panic", queue |-> queue]}
         ELSE IF Len(queue) < cap THEN {[err |-> "nil", queue |-> Append(queue, msg)]}
         ELSE {})
        \cup (IF done THEN {[err |-> "canceled", queue |-> queue]} ELSE {})
        \cup (IF ~sendReady /\ ~done
              THEN {[err |-> "ErrBusFull", queue |-> queue]} ELSE {})

\* A faulty receive that hands out the newest buffered message.
TryRecvNewest(queue, chClosed, ctxDone, zero) ==
    (IF Len(queue) > 0
     THEN {[err |-> "nil", msg |-> queue[Len(queue)],
            queue |-> SubSeq(queue, 1, Len(queue) - 1), ok |-> TRUE]}
     ELSE {})
    \cup (IF ctxDone THEN {[err |-> "canceled", msg |-> zero, queue |-> queue, ok |-> FALSE]}
          ELSE {})

\* select { case msg := <-ch: return msg, nil; case <-ctx.Done(): return zero, ctx.Err() }
\* A receive is ready when the buffer holds a message or the channel is closed;
\* on a closed and drained channel it yields the zero value (ok = FALSE, which
\* the code does not look at).  No outcome: the call blocks.
TryRecv(queue, chClosed, ctxDone, zero) ==
    (IF Len(queue) > 0
     THEN {[err |-> "nil", msg |-> Head(queue), queue |-> Tail(queue), ok |-> TRUE]}
     ELSE IF chClosed
     THEN {[err |-> "nil", msg |-> zero, queue |-> queue, ok |-> FALSE]}
     ELSE {})
    \cup (IF ctxDone THEN {[err |-> "canceled", msg |-> zero, queue |-> queue, ok |-> FALSE]}
          ELSE {})

\* how far Close has got when a call starts
CloseStage == IF inboundClosed /\ outboundClosed /\ closePc = "idle" /\ closeCalls > 0
              THEN "closed"
              ELSE IF busDone THEN "closing" ELSE "open"

Alive == crashed = "none"

\* func (b *MessageBus) PublishInbound(msg InboundMessage) error
PublishInbound(msg) ==
    /\ Alive
    /\ \E r \in TrySend(inbound, inboundClosed, busDone, bufferSize, msg) :
          /\ inbound' = r.queue
          /\ crashed' = IF r.err = "panic" THEN "send on closed channel" ELSE crashed
          /\ pubIn' = IF r.err = "nil" THEN Append(pubIn, msg) ELSE pubIn
          /\ lastOp' = [op |-> "PublishInbound", err |-> r.err]
    /\ UNCHANGED <<bufferSize, outbound, inboundClosed, outboundClosed, busDone,
                   closePc, closeCalls, consumerDone, pubOut, conIn, conOut>>

\* func (b *MessageBus) PublishOutbound(msg OutboundMessage) error
PublishOutbound(msg) ==
    /\ Alive
    /\ \E r \in TrySend(outbound, outboundClosed, busDone, bufferSize, msg) :
          /\ outbound' = r.queue
          /\ crashed' = IF r.err = "panic" THEN "send on closed channel" ELSE crashed
          /\ pubOut' = IF r.err = "nil" THEN Append(pubOut, msg) ELSE pubOut
          /\ lastOp' = [op |-> "PublishOutbound", err |-> r.err]
    /\ UNCHANGED <<bufferSize, inbound, inboundClosed, outboundClosed, busDone,
                   closePc, closeCalls, consumerDone, pubIn, conIn, conOut>>

\* func (b *MessageBus) ConsumeInbound(ctx context.Context) (InboundMessage, error)
ConsumeInbound(c) ==
    /\ Alive
    /\ \E r \in TryRecv(inbound, inboundClosed, consumerDone[c], ZeroInbound) :
          /\ inbound' = r.queue
          /\ conIn' = IF r.ok THEN Append(conIn, [msg |-> r.msg, by |-> c]) ELSE conIn
          /\ lastOp' = [op |-> "ConsumeInbound", err |-> r.err]
    /\ UNCHANGED <<bufferSize, outbound, inboundClosed, outboundClosed, busDone,
                   closePc, closeCalls, crashed, consumerDone, pubIn, pubOut, conOut>>

\* func (b *MessageBus) ConsumeOutbound(ctx context.Context) (OutboundMessage, error)
ConsumeOutbound(c) ==
    /\ Alive
    /\ \E r \in TryRecv(outbound, outboundClosed, consumerDone[c], ZeroOutbound) :
          /\ outbound' = r.queue
          /\ conOut' = IF r.ok THEN Append(conOut, [msg |-> r.msg, by |-> c]) ELSE conOut
          /\ lastOp' = [op |-> "ConsumeOutbound", err |-> r.err]
    /\ UNCHANGED <<bufferSize, inbound, inboundClosed, outboundClosed, busDone,
                   closePc, closeCalls, crashed, consumerDone, pubIn, pubOut, conIn>>

\* Close, line 451-452: b.cancel(); b.wg.Wait() (nothing is ever added to wg)
CloseCancel ==
    /\ Alive
    /\ closePc = "idle"
    /\ closeCalls < MaxCloseCalls
    /\ closeCalls' = closeCalls + 1
    /\ busDone' = TRUE
    /\ closePc' = "closeInbound"
    /\ lastOp' = [op |-> "Close.cancel", err |-> "nil"]
    /\ UNCHANGED <<bufferSize, inbound, outbound, inboundClosed, outboundClosed,
                   crashed, consumerDone, pubIn, pubOut, conIn, conOut>>
    /\ UNCHANGED nonBusVars

\* Close, line 453: close(b.inbound); closing a closed channel panics
CloseInbound ==
    /\ Alive
    /\ closePc = "closeInbound"
    /\ IF inboundClosed
       THEN /\ crashed' = "close of closed channel"
            /\ UNCHANGED <<inboundClosed, closePc>>
            /\ lastOp' = [op |-> "Close", err |-> "panic"]
       ELSE /\ inboundClosed' = TRUE
            /\ closePc' = "closeOutbound"
            /\ lastOp' = [op |-> "Close.inbound", err |-> "nil"]
            /\ UNCHANGED crashed
    /\ UNCHANGED <<bufferSize, inbound, outbound, outboundClosed, busDone, closeCalls,
                   consumerDone, pubIn, pubOut, conIn, conOut>>
    /\ UNCHANGED nonBusVars

\* Close, line 454: close(b.outbound), then Close returns
CloseOutbound ==
    /\ Alive
    /\ closePc = "closeOutbound"
    /\ IF outboundClosed
       THEN /\ crashed' = "close of closed channel"
            /\ UNCHANGED <<outboundClosed, closePc>>
            /\ lastOp' = [op |-> "Close", err |-> "panic"]
       ELSE /\ outboundClosed' = TRUE
            /\ closePc' = "idle"
            /\ lastOp' = [op |-> "Close", err |-> "nil"]
            /\ UNCHANGED crashed
    /\ UNCHANGED <<bufferSize, inbound, outbound, inboundClosed, busDone, closeCalls,
                   consumerDone, pubIn, pubOut, conIn, conOut>>
    /\ UNCHANGED nonBusVars

\* a consumer's caller cancels the ctx it consumes with
CancelConsumer(c) ==
    /\ Alive
    /\ ~consumerDone[c]
    /\ consumerDone' = [consumerDone EXCEPT ![c] = TRUE]
    /\ lastOp' = [op |-> "cancel", err |-> "nil"]
    /\ UNCHANGED <<bufferSize, inbound, outbound, inboundClosed, outboundClosed, busDone,
                   closePc, closeCalls, crashed, pubIn, pubOut, conIn, conOut>>

\* func New(bufferSize int) *MessageBus
New(size) ==
    /\ bufferSize = size
    /\ inbound = <<>>
    /\ outbound = <<>>
    /\ inboundClosed = FALSE
    /\ outboundClosed = FALSE
    /\ busDone = FALSE

InitBus(size) ==
    /\ New(size)
    /\ closePc = "idle"
    /\ closeCalls = 0
    /\ crashed = "none"
    /\ consumerDone = [c \in Consumers |-> FALSE]
    /\ pubIn = <<>>
    /\ pubOut = <<>>
    /\ conIn = <<>>
    /\ conOut = <<>>
    /\ lastOp = [op |-> "New", err |-> "nil"]

Published == Len(pubIn) + Len(pubOut)

\* the clients of the bus: publishers, competing consumers, the owner closing it
ClientPublishInbound ==
    \E m \in TestInbound :
        Published < MaxPublish /\ PublishInbound(m) /\ UNCHANGED nonBusVars
ClientPublishOutbound ==
    \E m \in TestOutbound :
        Published < MaxPublish /\ PublishOutbound(m) /\ UNCHANGED nonBusVars
ClientConsumeInbound == \E c \in Consumers : ConsumeInbound(c) /\ UNCHANGED nonBusVars
ClientConsumeOutbound == \E c \in Consumers : ConsumeOutbound(c) /\ UNCHANGED nonBusVars
ClientCancel == \E c \in Consumers : CancelConsumer(c) /\ UNCHANGED nonBusVars

NextBus ==
    \/ ClientPublishInbound
    \/ ClientPublishOutbound
    \/ ClientConsumeInbound
    \/ ClientConsumeOutbound
    \/ ClientCancel
    \/ CloseCancel
    \/ CloseInbound
    \/ CloseOutbound

(***************************************************************************)
(* The cron scheduler: internal/cron/service.go.  Durations and instants   *)
(* are in clock ticks of SecondsPerTick seconds.  Job ids are taken to be  *)
(* unique (AddJob derives them from the nanosecond clock).                 *)
(***************************************************************************)
Ticks(seconds) == (seconds + SecondsPerTick - 1) \div SecondsPerTick

\* runLoop: time.After(60 * time.Second) on an empty heap
EmptyHeapSleep == Ticks(60)
\* runLoop: maxWait is capped at 10 * time.Second
MaxSleep == Ticks(10)

\* cron.Schedule
Schedule(kind, everyMs, atMs) == [Kind |-> kind, EveryMs |-> everyMs, AtMs |-> atMs]

Range(seq) == {seq[i] : i \in 1..Len(seq)}

\* A faulty calculateNextRun that forgets the interval of an every-job.
calculateNextRunNoInterval(schedule, now) ==
    IF schedule.Kind = "at" THEN schedule.AtMs ELSE now

\* func (c *CronService) calculateNextRun(schedule Schedule) time.Time,
\* with now the value time.Now() returns in it
calculateNextRun(schedule, now) ==
    CASE schedule.Kind = "every" -> now + schedule.EveryMs
      [] schedule.Kind = "at" -> schedule.AtMs
      [] OTHER -> now

\* func (h jobHeap) Less(i, j int) bool
Less(jobs, h, i, j) == jobs[h[i]].NextRun < jobs[h[j]].NextRun

\* func (h jobHeap) Swap(i, j int)
Swap(h, i, j) == [h EXCEPT ![i] = h[j], ![j] = h[i]]

\* container/heap up(h, j), on indices 1..Len(h)
RECURSIVE up(_, _, _)
up(jobs, h, j) ==
    LET i == j \div 2
    IN  IF j = 1 \/ ~Less(jobs, h, j, i) THEN h ELSE up(jobs, Swap(h, i, j), i)

\* container/heap down(h, i0, n), on indices 1..n
RECURSIVE down(_, _, _, _)
down(jobs, h, i, n) ==
    LET j1 == 2 * i
        j == IF j1 + 1 <= n /\ Less(jobs, h, j1 + 1, j1) THEN j1 + 1 ELSE j1
    IN  IF j1 > n THEN h
        ELSE IF ~Less(jobs, h, j, i) THEN h
        ELSE down(jobs, Swap(h, i, j), j, n)

\* heap.Push(c.heap, item)
HeapPush(jobs, h, id) == up(jobs, Append(h, id), Len(h) + 1)

\* heap.Pop(c.heap): the heap that is left (the popped item is h[1])
HeapPop(jobs, h) ==
    LET n == Len(h)
    IN  SubSeq(down(jobs, Swap(h, 1, n), 1, n - 1), 1, n - 1)

\* A faulty removal that drops the last item of the heap, whatever i is.
HeapRemoveLast(jobs, h, i) == SubSeq(h, 1, Len(h) - 1)

\* heap.Remove(c.heap, i)
HeapRemove(jobs, h, i) ==
    LET n == Len(h)
        h1 == Swap(h, i, n)
        h2 == down(jobs, h1, i, n - 1)
        h3 == IF h2 = h1 THEN up(jobs, h1, i) ELSE h2
    IN  IF n = i THEN SubSeq(h, 1, n - 1) ELSE SubSeq(h3, 1, n - 1)

\* A faulty fate test that trusts the flag alone.
IsSingleShotFlagOnly(job) == job.DeleteAfterRun

\* checkAndRun, line 695: item.job.DeleteAfterRun || item.job.Schedule.Kind == "at"
IsSingleShot(job) == job.DeleteAfterRun \/ job.Schedule.Kind = "at"

CronLockFree == cronPc # "check"

\* time.Now() advances
Tick ==
    /\ Alive
    /\ clock < MaxClock
    /\ clock' = clock + 1
    /\ UNCHANGED <<nonCronVars, jobObjs, cronJobs, cronHeap, cronPc, cronNow, cronWake,
                   cronStopped, launches, removed>>

\* func (c *CronService) AddJob(job *Job) *Job
AddJob(schedule, deleteAfterRun) ==
    /\ Alive
    /\ CronLockFree
    /\ LET id == Len(jobObjs) + 1
           job == [Schedule |-> schedule, DeleteAfterRun |-> deleteAfterRun,
                   NextRun |-> calculateNextRun(schedule, clock)]
           jobs1 == Append(jobObjs, job)
       IN  /\ jobObjs' = jobs1
           /\ cronJobs' = cronJobs \cup {id}
           /\ cronHeap' = HeapPush(jobs1, cronHeap, id)
           /\ launches' = Append(launches, <<>>)
    /\ UNCHANGED <<clock, cronPc, cronNow, cronWake, cronStopped, removed>>

\* func (c *CronService) RemoveJob(id string) bool
RemoveJob(id) ==
    /\ Alive
    /\ CronLockFree
    /\ IF id \notin cronJobs
       THEN UNCHANGED <<cronJobs, cronHeap, removed>>
       ELSE /\ cronJobs' = cronJobs \ {id}
            /\ removed' = removed \cup {id}
            /\ cronHeap' = IF \E i \in 1..Len(cronHeap) : cronHeap[i] = id
                           THEN HeapRemove(jobObjs, cronHeap,
                                    CHOOSE i \in 1..Len(cronHeap) : cronHeap[i] = id)
                           ELSE cronHeap
    /\ UNCHANGED <<nonCronVars, clock, jobObjs, cronPc, cronNow, cronWake, cronStopped,
                   launches>>

\* func (c *CronService) getNextWaitDuration() time.Duration
getNextWaitDuration ==
    IF Len(cronHeap) = 0 THEN EmptyHeapSleep
    ELSE IF jobObjs[cronHeap[1]].NextRun <= clock THEN 0
    ELSE jobObjs[cronHeap[1]].NextRun - clock

\* runLoop, lines 562-600: one turn of the loop up to its select or checkAndRun
RunLoopTop ==
    /\ Alive
    /\ cronPc = "top"
    /\ IF Len(cronHeap) = 0
       THEN /\ cronPc' = "sleepEmpty"
            /\ cronWake' = clock + EmptyHeapSleep
            /\ UNCHANGED cronNow
       ELSE IF getNextWaitDuration > 0
       THEN /\ cronPc' = "sleepWait"
            /\ cronWake' = clock + (IF getNextWaitDuration > MaxSleep
                                    THEN MaxSleep ELSE getNextWaitDuration)
            /\ UNCHANGED cronNow
       ELSE /\ cronPc' = "check"
            /\ cronNow' = clock
            /\ UNCHANGED cronWake
    /\ UNCHANGED <<nonCronVars, clock, jobObjs, cronJobs, cronHeap, cronStopped, launches,
                   removed>>

\* runLoop, the two selects: stopChan is closed, or the timer has fired
RunLoopWake ==
    /\ Alive
    /\ cronPc \in {"sleepEmpty", "sleepWait"}
    /\ \/ /\ cronStopped
          /\ cronPc' = "exited"
          /\ UNCHANGED cronNow
       \/ /\ clock >= cronWake
          /\ IF cronPc = "sleepEmpty"
             THEN cronPc' = "top" /\ UNCHANGED cronNow
             ELSE cronPc' = "check" /\ cronNow' = clock
    /\ cronWake' = 0
    /\ UNCHANGED <<nonCronVars, clock, jobObjs, cronJobs, cronHeap, cronStopped,
                   launches, removed>>

\* a comparison of instants that also holds for equal ones
AfterOrEqual(t, u) == t >= u

\* func (t Time) After(u Time) bool
After(t, u) == t > u

\* func (c *CronService) checkAndRun(): one turn of its loop, under c.mu.
\* The launch (go func) and the fate of the job are one step; the instant of
\* the launch and the time.Now() of calculateNextRun are the same tick.
checkAndRun ==
    /\ Alive
    /\ cronPc = "check"
    /\ IF Len(cronHeap) = 0 \/ After(jobObjs[cronHeap[1]].NextRun, cronNow)
       THEN /\ cronPc' = "top"
            /\ cronNow' = 0
            /\ UNCHANGED <<jobObjs, cronJobs, cronHeap, launches>>
       ELSE LET id == cronHeap[1]
                popped == HeapPop(jobObjs, cronHeap)
                jobs1 == [jobObjs EXCEPT ![id].NextRun =
                              calculateNextRun(jobObjs[id].Schedule, clock)]
            IN  /\ launches' = [launches EXCEPT ![id] = Append(@, clock)]
                /\ IF IsSingleShot(jobObjs[id])
                   THEN /\ cronJobs' = cronJobs \ {id}
                        /\ cronHeap' = popped
                        /\ UNCHANGED jobObjs
                   ELSE /\ jobObjs' = jobs1
                        /\ cronHeap' = HeapPush(jobs1, popped, id)
                        /\ UNCHANGED cronJobs
                /\ UNCHANGED <<cronPc, cronNow>>
    /\ UNCHANGED <<nonCronVars, clock, cronWake, cronStopped, removed>>

\* func (c *CronService) Stop(): close(c.stopChan)
CronServiceStop ==
    /\ Alive
    /\ ~cronStopped
    /\ cronStopped' = TRUE
    /\ UNCHANGED <<clock, jobObjs, cronJobs, cronHeap, cronPc, cronNow, cronWake,
                   launches, removed>>

CronStop == CronServiceStop /\ UNCHANGED nonCronVars

\* func NewCronService(runner func(job *Job)) *CronService, and Start
InitCron ==
    /\ clock = 0
    /\ jobObjs = <<>>
    /\ cronJobs = {}
    /\ cronHeap = <<>>
    /\ cronPc = "top"
    /\ cronNow = 0
    /\ cronWake = 0
    /\ cronStopped = FALSE
    /\ launches = <<>>
    /\ removed = {}

\* the jobs the cron tool adds: every(d) and at(t), with either flag
ClientAddJob ==
    /\ Len(jobObjs) < MaxJobs
    /\ \E dar \in BOOLEAN :
          \/ \E d \in 1..MaxEvery : AddJob(Schedule("every", d, 0), dar)
          \/ \E t \in {clock, clock + 1} : AddJob(Schedule("at", 0, t), dar)
    /\ UNCHANGED nonCronVars
ClientRemoveJob == \E id \in 1..Len(jobObjs) : RemoveJob(id)

NextCron ==
    \/ Tick
    \/ ClientAddJob
    \/ ClientRemoveJob
    \/ RunLoopTop
    \/ RunLoopWake
    \/ checkAndRun
    \/ CronStop

(***************************************************************************)
(* The subagent manager: SubagentManager of package subagent.              *)
(***************************************************************************)
Origins == {[Channel |-> Str("cli"), ChatID |-> Str("direct")],
            [Channel |-> Str("slack"), ChatID |-> Str("C1")]}

\* func generateTaskID() string: the first 8 hex digits of the nanosecond clock
generateTaskID == idClock

\* the nanosecond clock reaches the next value of its first 8 hex digits
IdTick ==
    /\ Alive
    /\ idClock < MaxIdClock
    /\ idClock' = idClock + 1
    /\ UNCHANGED <<subTasks, runningTasks>>

\* func (s *SubagentManager) Spawn(task, label, originChannel, originChatID string) string
Spawn(origin) ==
    /\ Alive
    /\ LET taskID == generateTaskID
           subtask == [ID |-> taskID, Origin |-> origin, cancelled |-> FALSE,
                       pc |-> "chat", iteration |-> 0, status |-> "", exit |-> "running"]
       IN  /\ subTasks' = Append(subTasks, subtask)
           /\ runningTasks' = [id \in DOMAIN runningTasks \cup {taskID} |->
                                  IF id = taskID THEN Len(subTasks) + 1
                                  ELSE runningTasks[id]]
    /\ UNCHANGED idClock

\* what provider.Chat can answer; with a cancelled ctx the call fails
ChatOutcomes(task) ==
    IF task.cancelled THEN {"error"} ELSE {"final", "toolCalls", "error"}

\* runSubagent, lines 162-245: one iteration of the loop, the tools it runs
\* included
SubagentChat(t) ==
    /\ Alive
    /\ subTasks[t].pc = "chat"
    /\ \E outcome \in ChatOutcomes(subTasks[t]) :
          LET task == subTasks[t]
              exits(status, exit) ==
                  [task EXCEPT !.pc = "announce", !.status = status, !.exit = exit]
          IN  subTasks' = [subTasks EXCEPT ![t] =
                  CASE outcome = "error" ->
                         exits("error", IF task.cancelled THEN "cancellation"
                                        ELSE "LLM error")
                    [] outcome = "final" -> exits("ok", "success")
                    [] OTHER ->
                         IF task.iteration + 1 < MaxIterations
                         THEN [task EXCEPT !.iteration = task.iteration + 1]
                         ELSE exits("ok", "iteration cap")]
    /\ UNCHANGED <<idClock, runningTasks>>

\* func (s *SubagentManager) announceResult(...): the message it publishes
announceMsg(task) ==
    InMsg(Str("system"), Str("subagent"),
          task.Origin.Channel \o <<Colon>> \o task.Origin.ChatID,
          IF task.status = "error" THEN "failed" ELSE "completed successfully")

\* runSubagent: the announceResult call; on the error path (lines 198-202)
\* the goroutine returns right after it, on the other paths it goes on to the
\* delete
SubagentAnnounce(t) ==
    /\ subTasks[t].pc = "announce"
    /\ PublishInbound(announceMsg(subTasks[t]))
    /\ subTasks' = [subTasks EXCEPT ![t].pc =
                        IF subTasks[t].status = "error" THEN "done" ELSE "delete"]
    /\ UNCHANGED <<idClock, runningTasks>>

\* runSubagent, lines 253-255: delete(s.runningTasks, taskID)
SubagentDelete(t) ==
    /\ Alive
    /\ subTasks[t].pc = "delete"
    /\ runningTasks' = [id \in DOMAIN runningTasks \ {subTasks[t].ID} |-> runningTasks[id]]
    /\ subTasks' = [subTasks EXCEPT ![t].pc = "done"]
    /\ UNCHANGED idClock

\* func (s *SubagentManager) CancelTask(taskID string) bool
CancelTask(taskID) ==
    /\ Alive
    /\ IF taskID \in DOMAIN runningTasks
       THEN /\ subTasks' = [subTasks EXCEPT ![runningTasks[taskID]].cancelled = TRUE]
            /\ runningTasks' = [id \in DOMAIN runningTasks \ {taskID} |-> runningTasks[id]]
       ELSE UNCHANGED <<subTasks, runningTasks>>
    /\ UNCHANGED idClock

\* func (s *SubagentManager) StopAll()
StopAll ==
    /\ Alive
    /\ subTasks' = [t \in 1..Len(subTasks) |->
                       IF \E id \in DOMAIN runningTasks : runningTasks[id] = t
                       THEN [subTasks[t] EXCEPT !.cancelled = TRUE]
                       ELSE subTasks[t]]
    /\ runningTasks' = <<>>
    /\ UNCHANGED idClock

\* func NewSubagentManager(...) *SubagentManager
InitSub ==
    /\ idClock = 0
    /\ subTasks = <<>>
    /\ runningTasks = <<>>

ClientSpawn ==
    \E origin \in Origins :
        Len(subTasks) < MaxTasks /\ Spawn(origin) /\ UNCHANGED nonSubVars
ClientCancelTask == \E taskID \in 0..MaxIdClock : CancelTask(taskID) /\ UNCHANGED nonSubVars
ClientStopAll == (\E id \in DOMAIN runningTasks : TRUE) /\ StopAll /\ UNCHANGED nonSubVars
SubTick == IdTick /\ UNCHANGED nonSubVars
RunSubagentChat == \E t \in 1..Len(subTasks) : SubagentChat(t) /\ UNCHANGED nonSubVars
RunSubagentAnnounce ==
    \E t \in 1..Len(subTasks) :
        SubagentAnnounce(t)
            /\ UNCHANGED <<cronVars, agentVars, sessVars, toolVars, consVars, saveVars, telegramVars, gwVars>>
RunSubagentDelete == \E t \in 1..Len(subTasks) : SubagentDelete(t) /\ UNCHANGED nonSubVars

NextSub ==
    \/ SubTick
    \/ ClientSpawn
    \/ ClientCancelTask
    \/ ClientStopAll
    \/ RunSubagentChat
    \/ RunSubagentAnnounce
    \/ RunSubagentDelete
    \/ ClientConsumeInbound

(***************************************************************************)
(* The agent loop (internal/agent/loop.go) and the session manager         *)
(* (internal/session/session.go).  A worker is a goroutine that runs       *)
(* processMessage: "bus" is processMessages, "direct" is a caller of       *)
(* ProcessDirect (the CLI, or the goroutine of a cron job in agent mode).  *)
(***************************************************************************)
Workers == {"bus", "direct"}
AgentConsumer == "c1"

\* NewSessionManager: the cache holds maxCache sessions (1000 in the source,
\* scaled down here so that a full cache is reached)
maxCache == 2

\* the agent's memoryWindow (the configuration default), and keepCount of
\* ConsolidateIfNeeded and consolidateMemory: memoryWindow / 2, or 10 if that
\* is not positive
memoryWindow == 50
keepCount == IF memoryWindow \div 2 <= 0 THEN 10 ELSE memoryWindow \div 2

MapPut(f, k, v) == [x \in DOMAIN f \cup {k} |-> IF x = k THEN v ELSE f[x]]
MapDelete(f, k) == [x \in DOMAIN f \ {k} |-> f[x]]

\* strings.Index(s, tok): 0 stands for Go's -1, positions count from 1
Index(str, tok) ==
    IF \E i \in 1..Len(str) : str[i] = tok
    THEN CHOOSE i \in 1..Len(str) : str[i] = tok /\ \A j \in 1..(i - 1) : str[j] # tok
    ELSE 0

\* fmt.Sprintf("%s:%s", channel, chatID)
SessionKeyOf(channel, chatID) == channel \o <<Colon>> \o chatID

\* processSystemMessage, lines 738-745: the origin a system message names
ParseOrigin(chatID) ==
    LET idx == Index(chatID, Colon)
    IN  IF idx # 0
        THEN [Channel |-> SubSeq(chatID, 1, idx - 1),
              ChatID |-> SubSeq(chatID, idx + 1, Len(chatID))]
        ELSE [Channel |-> Str("cli"), ChatID |-> chatID]

\* func safeFilename(s string) string: what is not a letter, a digit, '-', '_'
\* or '.' becomes '_'
safeFilename(key) == [i \in 1..Len(key) |-> IF key[i] = Colon THEN "_" ELSE key[i]]

\* session.Message
SessMsg(role, content) == [Role |-> role, Content |-> content]

\* the content of the user entry of a turn: msg.Content, or for a system
\* message fmt.Sprintf("[System: %s] %s", msg.SenderID, msg.Content)
UserEntry(msg) ==
    IF msg.Channel = Str("system")
    THEN <<"[System: ">> \o msg.SenderID \o <<"] ", msg.Content>>
    ELSE <<msg.Content>>

\* func NewSession(key string) *Session
NewSession(key) == [Key |-> key, Messages |-> <<>>, LastConsolidated |-> 0]

\* A session file is a sequence of lines.  A line is the metadata record, a
\* message, or text that is not what Save writes: text that is not JSON
\* ("syntax error", which includes a line cut short), a JSON value that is not
\* an object ("not an object"), or text that begins with '}' or ']'
\* ("stray close").
MetaLine(key, lastConsolidated) ==
    [kind |-> "metadata", Key |-> key, LastConsolidated |-> lastConsolidated,
     Role |-> "", Content |-> <<>>]
MsgLine(msg) ==
    [kind |-> "message", Key |-> EmptyStr, LastConsolidated |-> 0,
     Role |-> msg.Role, Content |-> msg.Content]
BadLine(kind) ==
    [kind |-> kind, Key |-> EmptyStr, LastConsolidated |-> 0, Role |-> "", Content |-> <<>>]
BadKinds == {"syntax error", "not an object", "stray close"}

\* a Save that writes the messages last to first
EncodeSessionReversed(session) ==
    <<MetaLine(session.Key, session.LastConsolidated)>> \o
        [i \in 1..Len(session.Messages) |->
            MsgLine(session.Messages[Len(session.Messages) + 1 - i])]

\* Save, lines 399-428: the metadata record, then every message in the order
\* of session.Messages
EncodeSession(session) ==
    <<MetaLine(session.Key, session.LastConsolidated)>> \o
        [i \in 1..Len(session.Messages) |-> MsgLine(session.Messages[i])]

\* the message entries of a file, in file order
MessageEntries(file) ==
    SelectSeq(file, LAMBDA line : line.kind = "message")

\* load, lines 337-359: for decoder.More() { if Decode fails { continue } ... }.
\* More() is true while the next byte is neither '}' nor ']' nor the end of
\* the file.  A value that is JSON but not an object is consumed and Decode
\* returns a type error.  After a syntax error the decoder consumes nothing
\* and returns the same error from every later Decode, while More() stays
\* true: the loop never ends (spins).
RECURSIVE decodeLines(_, _)
decodeLines(lines, acc) ==
    IF lines = <<>> THEN acc
    ELSE LET line == Head(lines)
         IN  CASE line.kind = "syntax error" -> [acc EXCEPT !.spins = TRUE]
               [] line.kind = "stray close" -> acc
               [] line.kind = "not an object" -> decodeLines(Tail(lines), acc)
               [] line.kind = "metadata" ->
                    decodeLines(Tail(lines),
                                [acc EXCEPT !.LastConsolidated = line.LastConsolidated])
               [] OTHER ->
                    decodeLines(Tail(lines),
                                [acc EXCEPT !.Messages = Append(@, SessMsg(line.Role, line.Content))])

Decoded(file) == decodeLines(file, [spins |-> FALSE, Messages |-> <<>>, LastConsolidated |-> 0])

\* load, lines 318-323: the file of the session exists
HasFile(key) == safeFilename(key) \in DOMAIN disk

\* load never returns: its decoding loop spins
loadSpins(key) == HasFile(key) /\ Decoded(disk[safeFilename(key)]).spins

\* func (sm *SessionManager) load(key string) *Session, when the file exists
\* and the decoding loop ends
load(key) ==
    LET data == Decoded(disk[safeFilename(key)])
    IN  [Key |-> key, Messages |-> data.Messages, LastConsolidated |-> data.LastConsolidated]

\* no call of the session manager yet
NoCall == [op |-> "", key |-> EmptyStr, sess |-> 0, result |-> ""]

\* func (sm *SessionManager) moveToEnd(key string)
moveToEnd(order, key) ==
    LET i == Index(order, key)
    IN  IF i = 0 THEN order
        ELSE SubSeq(order, 1, i - 1) \o SubSeq(order, i + 1, Len(order)) \o <<key>>

\* a cron.Job (the fields executeAgentJob reads); NoJob when the turn is not a
\* cron job's
NoJob == [Channel |-> EmptyStr, To |-> EmptyStr, AgentCommand |-> ""]

NoTarget == [Channel |-> EmptyStr, ChatID |-> EmptyStr]

\* func (a *AgentLoop) SetToolContext(channel, chatID string): the message,
\* spawn and cron tools are given the context
SetToolContext(target) == [message |-> target, spawn |-> target, cron |-> target]

IdleWorker ==
    [pc |-> "idle", msg |-> ZeroInbound, key |-> EmptyStr, sess |-> 0, iteration |-> 0,
     toolMsgs |-> 0, final |-> "", reply |-> ZeroOutbound, hasReply |-> FALSE,
     job |-> NoJob, llmCalls |-> 0, failed |-> FALSE]

\* processMessages, lines 198-218: the loop consumes the next inbound message
AgentConsume ==
    /\ workers["bus"].pc = "idle"
    /\ turns < MaxTurns
    /\ ConsumeInbound(AgentConsumer)
    /\ IF lastOp'.err # "nil"
       THEN /\ workers' = [workers EXCEPT !["bus"].pc = "exited"]
            /\ UNCHANGED turns
       ELSE /\ workers' = [workers EXCEPT !["bus"] =
                   [IdleWorker EXCEPT !.pc = "processMessage",
                       !.msg = IF Len(conIn') > Len(conIn) THEN conIn'[Len(conIn')].msg
                               ELSE ZeroInbound]]
            /\ turns' = turns + 1
    /\ UNCHANGED <<sessObjs, cache, accessOrder, disk, toolContext, agentSent, added>>

\* func (a *AgentLoop) ProcessDirect(ctx, content) (string, error): the call
ProcessDirect(content) ==
    /\ Alive
    /\ workers["direct"].pc = "idle"
    /\ turns < MaxTurns
    /\ workers' = [workers EXCEPT !["direct"] =
           [IdleWorker EXCEPT !.pc = "processMessage",
                              !.msg = InMsg(Str("cli"), Str("user"), Str("direct"), content)]]
    /\ turns' = turns + 1
    /\ UNCHANGED <<sessObjs, cache, accessOrder, disk, toolContext, agentSent, added>>

\* func (c *CronService) executeAgentJob(job *Job), up to its call of
\* ProcessDirect: a job without channel or recipient is given up, else the tool
\* context is set to the job's and the agent is called with the job's command
executeAgentJob(job) ==
    /\ Alive
    /\ workers["direct"].pc = "idle"
    /\ turns < MaxTurns
    /\ job.Channel # EmptyStr /\ job.To # EmptyStr
    /\ toolContext' = SetToolContext([Channel |-> job.Channel, ChatID |-> job.To])
    /\ workers' = [workers EXCEPT !["direct"] =
           [IdleWorker EXCEPT !.pc = "processMessage", !.job = job,
               !.msg = InMsg(Str("cli"), Str("user"), Str("direct"), job.AgentCommand)]]
    /\ turns' = turns + 1
    /\ UNCHANGED <<sessObjs, cache, accessOrder, disk, agentSent, added>>

\* the session key processMessage or processSystemMessage uses for msg
KeyOf(msg) ==
    IF msg.Channel = Str("system")
    THEN SessionKeyOf(ParseOrigin(msg.ChatID).Channel, ParseOrigin(msg.ChatID).ChatID)
    ELSE SessionKeyOf(msg.Channel, msg.ChatID)

\* the address the tools and the reply of a turn are given
TargetOf(msg) ==
    IF msg.Channel = Str("system") THEN ParseOrigin(msg.ChatID)
    ELSE [Channel |-> msg.Channel, ChatID |-> msg.ChatID]

\* processMessage up to GetOrCreate, and GetOrCreate up to the point where it
\* has a session in hand: the cached one, or one loaded or made and not yet
\* in the cache
GetOrCreate(w) ==
    /\ Alive
    /\ workers[w].pc = "processMessage"
    /\ LET key == KeyOf(workers[w].msg)
       IN  IF key \in DOMAIN cache
           THEN /\ accessOrder' = moveToEnd(accessOrder, key)
                /\ workers' = [workers EXCEPT ![w].key = key, ![w].sess = cache[key],
                                              ![w].pc = "context"]
                /\ UNCHANGED sessObjs
           ELSE IF loadSpins(key)
           THEN /\ workers' = [workers EXCEPT ![w].key = key, ![w].pc = "loadSpins"]
                /\ UNCHANGED <<sessObjs, accessOrder>>
           ELSE /\ sessObjs' = Append(sessObjs,
                                  IF HasFile(key) THEN load(key) ELSE NewSession(key))
                /\ workers' = [workers EXCEPT ![w].key = key, ![w].sess = Len(sessObjs) + 1,
                                              ![w].pc = "cachePut"]
                /\ UNCHANGED accessOrder
    /\ UNCHANGED <<cache, disk, toolContext, turns, agentSent, added>>

\* func (sm *SessionManager) Save(session *Session) error: the file is
\* rewritten and the session is stored in the cache under its key
SaveSession(session, sess) ==
    /\ disk' = MapPut(disk, safeFilename(session.Key), EncodeSession(session))
    /\ cache' = MapPut(cache, session.Key, sess)

\* func (sm *SessionManager) evictOldest()
evictOldest(c, order) ==
    IF Len(order) = 0 THEN [cache |-> c, accessOrder |-> order]
    ELSE [cache |-> MapDelete(c, order[1]), accessOrder |-> Tail(order)]

\* GetOrCreate, lines 260-270: evict if the cache is full, then store the
\* session and append its key to accessOrder
cacheInsert(c, order, key, sess) ==
    LET room == IF Cardinality(DOMAIN c) >= maxCache THEN evictOldest(c, order)
                ELSE [cache |-> c, accessOrder |-> order]
    IN  [cache |-> MapPut(room.cache, key, sess), accessOrder |-> Append(room.accessOrder, key)]

\* GetOrCreate, lines 260-270: under cacheMu, evict if full and store
CachePut(w) ==
    /\ Alive
    /\ workers[w].pc = "cachePut"
    /\ LET stored == cacheInsert(cache, accessOrder, workers[w].key, workers[w].sess)
       IN  /\ cache' = stored.cache
           /\ accessOrder' = stored.accessOrder
    /\ workers' = [workers EXCEPT ![w].pc = "context"]
    /\ UNCHANGED <<sessObjs, disk, toolContext, turns, agentSent, added>>

\* processMessage, line 286: the reply to "/new", six Chinese characters
\* ("new session created") written here by their code points
NewSessionReply == "U+65B0 U+4F1A U+8BDD U+5DF2 U+521B U+5EFA"

\* a "/new" that saves the fresh session and leaves it in the cache
newSessionCommandNoInvalidate(key) ==
    /\ sessObjs' = Append(sessObjs, NewSession(key))
    /\ disk' = MapPut(disk, safeFilename(key), EncodeSession(NewSession(key)))
    /\ cache' = MapPut(cache, key, Len(sessObjs) + 1)

\* processMessage, lines 275-282: newSession := session.NewSession(key);
\* a.sessions.Save(newSession); a.sessions.Invalidate(key)
newSessionCommand(key) ==
    /\ sessObjs' = Append(sessObjs, NewSession(key))
    /\ disk' = MapPut(disk, safeFilename(key), EncodeSession(NewSession(key)))
    /\ cache' = MapDelete(MapPut(cache, key, Len(sessObjs) + 1), key)

\* processMessage, lines 268-295, and processSystemMessage, lines 750-760: the
\* tool context is set; "/new" and "/help" are answered at once
SetContext(w) ==
    /\ Alive
    /\ workers[w].pc = "context"
    /\ LET msg == workers[w].msg
           system == msg.Channel = Str("system")
           key == workers[w].key
           answer(content) ==
               [workers EXCEPT ![w].pc = "respond", ![w].hasReply = TRUE,
                               ![w].reply = OutMsg(msg.Channel, msg.ChatID, content, FALSE)]
       IN  /\ toolContext' = IF system
                             THEN [toolContext EXCEPT !.message = TargetOf(msg),
                                                      !.spawn = TargetOf(msg)]
                             ELSE SetToolContext(TargetOf(msg))
           /\ IF ~system /\ msg.Content = "/new"
              THEN /\ newSessionCommand(key)
                   /\ added' = MapPut(added, safeFilename(key), <<>>)
                   /\ workers' = answer(NewSessionReply)
              ELSE IF ~system /\ msg.Content = "/help"
              THEN /\ workers' = answer("commands")
                   /\ UNCHANGED <<sessObjs, disk, cache, added>>
              ELSE /\ workers' = [workers EXCEPT ![w].pc = "llm"]
                   /\ UNCHANGED <<sessObjs, disk, cache, added>>
    /\ UNCHANGED <<accessOrder, turns, agentSent>>

\* what a.provider.Chat can answer in one iteration
LLMOutcomes == {"final", "empty", "toolCalls", "error"}

\* a turn that keeps the empty final content
DefaultFinalEmpty(msg) == ""

\* the final content of a turn that produced none
DefaultFinal(msg) ==
    IF msg.Channel = Str("system") THEN "Background task completed."
    ELSE "I've completed processing but have no response to give."

\* the error a.provider.Chat returns, and processMessages, line 232:
\* fmt.Sprintf("Error: %v", err)
ChatError == "chat failed"
ErrorReply(err) == "Error: " \o err

\* a loop that calls Chat again after an error
afterChatErrorRetry(me, w) ==
    [me EXCEPT !.failed = TRUE, !.llmCalls = @ + 1, !.iteration = @ + 1]

\* runAgentLoop, lines 424-427, and processMessages, lines 226-235: a failed
\* Chat ends the turn with the error; processMessages makes it the reply,
\* ProcessDirect returns it to its caller
afterChatError(me, w) ==
    IF w = "bus"
    THEN [me EXCEPT !.pc = "respond", !.failed = TRUE, !.llmCalls = @ + 1, !.hasReply = TRUE,
                    !.reply = OutMsg(me.msg.Channel, me.msg.ChatID, ErrorReply(ChatError),
                                     FALSE)]
    ELSE [me EXCEPT !.pc = "respond", !.failed = TRUE, !.llmCalls = @ + 1, !.hasReply = FALSE]

\* a loop that goes on while the answers hold tool calls
withinIterationsUnbounded(iteration) == iteration < MaxIterations + 1

\* runAgentLoop, line 349: for iteration < a.maxIterations
withinIterations(iteration) == iteration < MaxIterations

\* runAgentLoop (lines 345-491) and the loop of processSystemMessage (lines
\* 774-860): one iteration; tool calls and tool results go to the local
\* message list only
RunAgentLoop(w) ==
    /\ Alive
    /\ workers[w].pc = "llm"
    /\ LET me == workers[w]
           finish(content) ==
               [me EXCEPT !.pc = "addUser",
                          !.final = IF content = "" THEN DefaultFinal(me.msg) ELSE content]
           called(worker) == [worker EXCEPT !.llmCalls = @ + 1]
       IN  IF ~withinIterations(me.iteration)
           THEN workers' = [workers EXCEPT ![w] = finish("")]
           ELSE \E outcome \in LLMOutcomes :
                   workers' = [workers EXCEPT ![w] =
                       CASE outcome = "error" -> afterChatError(me, w)
                         [] outcome = "final" -> called(finish("reply to " \o me.msg.Content))
                         [] outcome = "empty" -> called(finish(""))
                         [] OTHER -> [me EXCEPT !.iteration = me.iteration + 1,
                                                !.llmCalls = me.llmCalls + 1,
                                                !.toolMsgs = me.toolMsgs + 2]]
    /\ UNCHANGED <<sessObjs, cache, accessOrder, disk, toolContext, turns, agentSent, added>>

\* func (s *Session) AddMessage(role, content string, toolCalls []ToolCall)
AddMessage(sess, role, content) ==
    LET file == safeFilename(sessObjs[sess].Key)
        before == IF file \in DOMAIN added THEN added[file] ELSE <<>>
    IN  /\ sessObjs' = [sessObjs EXCEPT ![sess].Messages = Append(@, SessMsg(role, content))]
        /\ added' = MapPut(added, file, Append(before, SessMsg(role, content)))

\* processMessage, line 319: sess.AddMessage("user", msg.Content, nil)
AddUser(w) ==
    /\ Alive
    /\ workers[w].pc = "addUser"
    /\ AddMessage(workers[w].sess, "user", UserEntry(workers[w].msg))
    /\ workers' = [workers EXCEPT ![w].pc = "addAssistant"]
    /\ UNCHANGED <<cache, accessOrder, disk, toolContext, turns, agentSent>>

\* processMessage, line 320: sess.AddMessage("assistant", finalContent, nil)
AddAssistant(w) ==
    /\ Alive
    /\ workers[w].pc = "addAssistant"
    /\ AddMessage(workers[w].sess, "assistant", <<workers[w].final>>)
    /\ workers' = [workers EXCEPT ![w].pc = "save"]
    /\ UNCHANGED <<cache, accessOrder, disk, toolContext, turns, agentSent>>

\* func (sm *SessionManager) Save(session *Session) error, and the return of
\* the turn's reply; ConsolidateIfNeeded returns at once for a session of at
\* most memoryWindow/2 messages
Save(w) ==
    /\ Alive
    /\ workers[w].pc = "save"
    /\ LET me == workers[w]
           session == sessObjs[me.sess]
           target == TargetOf(me.msg)
       IN  /\ SaveSession(session, me.sess)
           /\ workers' = [workers EXCEPT ![w].pc = "respond", ![w].hasReply = TRUE,
                  ![w].reply = OutMsg(target.Channel, target.ChatID, me.final, FALSE)]
    /\ UNCHANGED <<sessObjs, accessOrder, toolContext, turns, agentSent, added>>

\* func (c *CronService) sendResult(msgBus, job, content): the message it publishes
sendResultMsg(job, content) == OutMsg(job.Channel, job.To, content, TRUE)

\* processMessages, lines 238-240: a response with content is published;
\* ProcessDirect hands the content (or the error) to its caller instead, and
\* executeAgentJob passes it to sendResult
Respond(w) ==
    /\ workers[w].pc = "respond"
    /\ workers' = [workers EXCEPT ![w] = IdleWorker]
    /\ IF w = "bus" /\ workers[w].hasReply /\ workers[w].reply.Content # ""
       THEN /\ PublishOutbound(workers[w].reply)
            /\ agentSent' = IF lastOp'.err = "nil"
                            THEN agentSent \cup {[in |-> workers[w].msg,
                                                  out |-> workers[w].reply]}
                            ELSE agentSent
       ELSE IF w = "direct" /\ workers[w].job # NoJob
       THEN /\ PublishOutbound(sendResultMsg(workers[w].job,
                   IF workers[w].hasReply THEN workers[w].reply.Content ELSE "failed"))
            /\ UNCHANGED agentSent
       ELSE /\ Alive
            /\ UNCHANGED <<busVars, agentSent>>
    /\ UNCHANGED <<sessObjs, cache, accessOrder, disk, toolContext, turns, added>>

\* func (s *SlackChannel) isAllowed(user string) bool
isAllowed(user) == allowFrom.slack = {} \/ user \in allowFrom.slack

\* func (s *SlackChannel) handleMessage(eventData map[string]interface{}):
\* a field the event lacks reads as ""
handleMessage(eventData) ==
    IF isAllowed(eventData.user)
    THEN PublishInbound(InMsg(Str("slack"), eventData.user, eventData.channel,
                              eventData.text))
    ELSE UNCHANGED busVars

SlackEvents ==
    {[user |-> Str("U1"), channel |-> Str("C1"), text |-> "hi"],
     [user |-> Str("U1"), channel |-> Str("C1"), text |-> "/new"],
     [user |-> Str("U1"), channel |-> Str("C1"), text |-> "/help"],
     [user |-> Str("U1"), channel |-> EmptyStr, text |-> "hi"]}

\* the agent-mode job a turn on telegram chat 42 added with the cron tool
AgentJobs == {[Channel |-> Str("telegram"), To |-> Str("42"), AgentCommand |-> "do"]}

\* a finished subagent task that a turn of ProcessDirect spawned
FinishedTasks ==
    {[Origin |-> [Channel |-> Str("cli"), ChatID |-> Str("direct")], status |-> st] :
        st \in {"ok", "error"}}

\* func NewAgentLoop(...) and func NewSessionManager(workspace string), on a
\* sessions directory that holds the files of workspace
\* the goroutines that call Save: a turn of the agent loop and a consolidation
Savers == {"turn", "consolidation"}
NotSaving == [pc |-> "idle", sess |-> 0, offset |-> 0, next |-> 0, out |-> <<>>]

InitAgentOn(workspace) ==
    /\ sessObjs = <<>>
    /\ cache = <<>>
    /\ accessOrder = <<>>
    /\ disk = workspace
    /\ added = [file \in DOMAIN workspace |-> Decoded(workspace[file]).Messages]
    /\ smCalls = 0
    /\ smLast = NoCall
    /\ memoryWrites = 0
    /\ touched = <<>>
    /\ consolidating = {}
    /\ consolidations = <<>>
    /\ saving = [s \in Savers |-> NotSaving]
    /\ resetKeys = {}
    /\ toolContext = SetToolContext(NoTarget)
    /\ workers = [w \in Workers |-> IdleWorker]
    /\ turns = 0
    /\ agentSent = {}

\* the same, on an empty sessions directory
InitAgent == InitAgentOn(<<>>)

Inbounds == Len(pubIn)
SlackDelivers ==
    \E eventData \in SlackEvents :
        Inbounds < MaxTurns /\ handleMessage(eventData) /\ UNCHANGED nonBusVars
SubagentAnnounces ==
    \E task \in FinishedTasks :
        Inbounds < MaxTurns /\ PublishInbound(announceMsg(task)) /\ UNCHANGED nonBusVars
AgentConsumes == AgentConsume /\ UNCHANGED nonAgentVars
DirectCall == ProcessDirect("do") /\ UNCHANGED <<busVars, nonAgentVars>>
CronAgentJob ==
    \E job \in AgentJobs : executeAgentJob(job) /\ UNCHANGED <<busVars, nonAgentVars>>
AgentGetOrCreate == \E w \in Workers : GetOrCreate(w) /\ UNCHANGED <<busVars, nonAgentVars>>
AgentCachePut == \E w \in Workers : CachePut(w) /\ UNCHANGED <<busVars, nonAgentVars>>
AgentSetContext == \E w \in Workers : SetContext(w) /\ UNCHANGED <<busVars, nonAgentVars>>
AgentRunAgentLoop == \E w \in Workers : RunAgentLoop(w) /\ UNCHANGED <<busVars, nonAgentVars>>
AgentAddUser == \E w \in Workers : AddUser(w) /\ UNCHANGED <<busVars, nonAgentVars>>
AgentAddAssistant == \E w \in Workers : AddAssistant(w) /\ UNCHANGED <<busVars, nonAgentVars>>
AgentSave == \E w \in Workers : Save(w) /\ UNCHANGED <<busVars, nonAgentVars>>
AgentRespond == \E w \in Workers : Respond(w) /\ UNCHANGED nonAgentVars

NextAgent ==
    \/ SlackDelivers
    \/ SubagentAnnounces
    \/ AgentConsumes
    \/ DirectCall
    \/ CronAgentJob
    \/ AgentGetOrCreate
    \/ AgentCachePut
    \/ AgentSetContext
    \/ AgentRunAgentLoop
    \/ AgentAddUser
    \/ AgentAddAssistant
    \/ AgentSave
    \/ AgentRespond
    \/ ClientConsumeOutbound

\* the agent loop alone: processMessages takes the messages of the Slack
\* channel off the bus and handles them one after the other
TurnGetOrCreate == GetOrCreate("bus") /\ UNCHANGED <<busVars, nonAgentVars>>
TurnCachePut == CachePut("bus") /\ UNCHANGED <<busVars, nonAgentVars>>
TurnSetContext == SetContext("bus") /\ UNCHANGED <<busVars, nonAgentVars>>
TurnRunAgentLoop == RunAgentLoop("bus") /\ UNCHANGED <<busVars, nonAgentVars>>
TurnAddUser == AddUser("bus") /\ UNCHANGED <<busVars, nonAgentVars>>
TurnAddAssistant == AddAssistant("bus") /\ UNCHANGED <<busVars, nonAgentVars>>
TurnSave == Save("bus") /\ UNCHANGED <<busVars, nonAgentVars>>
TurnRespond == Respond("bus") /\ UNCHANGED nonAgentVars

NextTurn ==
    \/ SlackDelivers
    \/ AgentConsumes
    \/ TurnGetOrCreate
    \/ TurnCachePut
    \/ TurnSetContext
    \/ TurnRunAgentLoop
    \/ TurnAddUser
    \/ TurnAddAssistant
    \/ TurnSave
    \/ TurnRespond
    \/ ClientConsumeOutbound

(***************************************************************************)
(* The session manager and memory consolidation, called one call at a time *)
(* on a sessions directory that already holds files.                       *)
(***************************************************************************)
MaxCalls == 5         \* calls of the session manager

K1 == <<"slack", Colon, "C1">>
K2 == <<"slack", Colon, "C2">>
K3 == <<"cli", Colon, "direct">>
SessionKeys == {K1, K2, K3}

\* the entries of n user/assistant pairs
Pairs(n) ==
    [i \in 1..(2 * n) |->
        IF i % 2 = 1 THEN SessMsg("user", <<"question " \o ToString((i + 1) \div 2)>>)
        ELSE SessMsg("assistant", <<"answer " \o ToString(i \div 2)>>)]

\* the file Save wrote for a session of n pairs
SavedSession(key, n) ==
    EncodeSession([Key |-> key, Messages |-> Pairs(n), LastConsolidated |-> 0])

\* such a file of one pair whose first line, or a line between the two
\* entries, is not what Save writes
DamagedFirst(key, kind) == <<BadLine(kind)>> \o Tail(SavedSession(key, 1))
DamagedMiddle(key, kind) ==
    LET file == SavedSession(key, 1)
    IN  <<file[1], file[2], BadLine(kind), file[3]>>

\* a sessions directory that holds one file
FileOf(key, lines) == MapPut(<<>>, safeFilename(key), lines)

\* a session of more than keepCount entries
ManyPairs == (keepCount \div 2) + 1

Workspaces ==
    {<<>>, FileOf(K1, SavedSession(K1, 3)), FileOf(K1, SavedSession(K1, ManyPairs))}
    \cup {FileOf(K1, DamagedFirst(K1, kind)) : kind \in BadKinds}
    \cup {FileOf(K1, DamagedMiddle(K1, kind)) : kind \in BadKinds}

\* a caller whose GetOrCreate spins makes no further call
Returned == smLast.result # "spins"

Called(op, key, sess, result) ==
    /\ smCalls' = smCalls + 1
    /\ smLast' = [op |-> op, key |-> key, sess |-> sess, result |-> result]

\* func (sm *SessionManager) GetOrCreate(key string) *Session, one whole call
SmGetOrCreate(key) ==
    /\ smCalls < MaxCalls
    /\ Returned
    /\ IF key \in DOMAIN cache
       THEN /\ accessOrder' = moveToEnd(accessOrder, key)
            /\ Called("GetOrCreate", key, cache[key], "cached")
            /\ UNCHANGED <<sessObjs, cache>>
       ELSE IF loadSpins(key)
       THEN /\ Called("GetOrCreate", key, 0, "spins")
            /\ UNCHANGED <<sessObjs, cache, accessOrder>>
       ELSE LET sess == Len(sessObjs) + 1
                stored == cacheInsert(cache, accessOrder, key, sess)
            IN  /\ sessObjs' = Append(sessObjs,
                                  IF HasFile(key) THEN load(key) ELSE NewSession(key))
                /\ cache' = stored.cache
                /\ accessOrder' = stored.accessOrder
                /\ Called("GetOrCreate", key, sess, IF HasFile(key) THEN "loaded" ELSE "created")
    /\ touched' = IF smLast'.result = "spins" THEN touched
                   ELSE Append(SelectSeq(touched, LAMBDA k : k # key), key)
    /\ UNCHANGED <<disk, toolContext, workers, turns, agentSent, added, memoryWrites>>

\* sess.AddMessage(role, content, nil) on a session some GetOrCreate returned
SmAddMessage(sess, role, content) ==
    /\ smCalls < MaxCalls
    /\ Returned
    /\ AddMessage(sess, role, content)
    /\ Called("AddMessage", sessObjs[sess].Key, sess, "nil")
    /\ UNCHANGED <<cache, accessOrder, disk, toolContext, workers, turns, agentSent,
                   memoryWrites, touched>>

SmSave(sess) ==
    /\ smCalls < MaxCalls
    /\ Returned
    /\ SaveSession(sessObjs[sess], sess)
    /\ Called("Save", sessObjs[sess].Key, sess, "nil")
    /\ UNCHANGED <<sessObjs, accessOrder, toolContext, workers, turns, agentSent, added,
                   memoryWrites, touched>>

\* func (sm *SessionManager) Invalidate(key string)
SmInvalidate(key) ==
    /\ smCalls < MaxCalls
    /\ Returned
    /\ cache' = MapDelete(cache, key)
    /\ Called("Invalidate", key, 0, "nil")
    /\ UNCHANGED <<sessObjs, accessOrder, disk, toolContext, workers, turns, agentSent,
                   added, memoryWrites, touched>>

\* ConsolidateIfNeeded, lines 561-575: the session has more than keepCount
\* entries, at least keepCount of them after the cursor
NeedsConsolidation(session) ==
    /\ Len(session.Messages) > keepCount
    /\ Len(session.Messages) - session.LastConsolidated >= keepCount

\* what a.provider.Chat can answer in a consolidation run
ConsolidationOutcomes == {"error", "no tool call", "save_memory", "other tool"}

\* consolidateMemory, lines 610-618: the end of the slice to consolidate
endConsolidate(session) ==
    IF session.LastConsolidated + keepCount > Len(session.Messages)
    THEN Len(session.Messages)
    ELSE session.LastConsolidated + keepCount

\* consolidateMemory, the session it leaves: nothing to do or a failed Chat
\* leave it as it was; after any answer the cursor is set to endConsolidate
consolidateMemory(session, outcome) ==
    IF session.LastConsolidated >= endConsolidate(session) \/ outcome = "error"
    THEN session
    ELSE [session EXCEPT !.LastConsolidated = endConsolidate(session)]

\* consolidateMemory, lines 711-718: the save_memory tool is executed
ExecutesSaveMemory(session, outcome) ==
    session.LastConsolidated < endConsolidate(session) /\ outcome = "save_memory"

\* ConsolidateIfNeeded and the goroutine it starts, run to its end: the
\* consolidating flag of the key is set at the start and deleted at the end
SmConsolidate(sess, outcome) ==
    /\ smCalls < MaxCalls
    /\ Returned
    /\ NeedsConsolidation(sessObjs[sess])
    /\ LET session == consolidateMemory(sessObjs[sess], outcome)
           saves == sessObjs[sess].LastConsolidated < endConsolidate(sessObjs[sess])
                    /\ outcome # "error"
       IN  /\ sessObjs' = [sessObjs EXCEPT ![sess] = session]
           /\ memoryWrites' = IF ExecutesSaveMemory(sessObjs[sess], outcome)
                              THEN memoryWrites + 1 ELSE memoryWrites
           /\ IF saves THEN SaveSession(session, sess) ELSE UNCHANGED <<disk, cache>>
    /\ Called("Consolidate", sessObjs[sess].Key, sess, outcome)
    /\ UNCHANGED <<accessOrder, toolContext, workers, turns, agentSent, added, touched>>

nonSessionVars == <<busVars, cronVars, subVars, toolVars, consVars, saveVars, telegramVars, gwVars>>
CallGetOrCreate == \E key \in SessionKeys : SmGetOrCreate(key) /\ UNCHANGED nonSessionVars
CallAddMessage ==
    \E sess \in 1..Len(sessObjs) :
        SmAddMessage(sess, "user", <<"more">>) /\ UNCHANGED nonSessionVars
CallSave == \E sess \in 1..Len(sessObjs) : SmSave(sess) /\ UNCHANGED nonSessionVars
CallInvalidate == \E key \in SessionKeys : SmInvalidate(key) /\ UNCHANGED nonSessionVars
CallConsolidate ==
    \E sess \in 1..Len(sessObjs) : \E outcome \in ConsolidationOutcomes :
        SmConsolidate(sess, outcome) /\ UNCHANGED nonSessionVars

NextSession ==
    \/ CallGetOrCreate
    \/ CallAddMessage
    \/ CallSave
    \/ CallInvalidate
    \/ CallConsolidate

(***************************************************************************)
(* Memory consolidation in its goroutine, next to the "/new" command:      *)
(* internal/agent/loop.go, lines 274-288 and 553-728.                      *)
(***************************************************************************)
\* ConsolidateIfNeeded, lines 580-584: the flag of the key, read under
\* consolidatingMu
AlreadyConsolidatingNever(key) == FALSE
AlreadyConsolidating(key) == key \in consolidating

\* ConsolidateIfNeeded (lines 553-598) once the trigger holds, and the
\* goroutine it starts up to the Chat call of consolidateMemory: with the flag
\* of the key set the call returns; otherwise it sets the flag and starts a
\* goroutine, which holds the session and has computed the end of its slice
ConsolidateIfNeeded(sess) ==
    LET session == sessObjs[sess]
        key == session.Key
    IN  /\ smCalls < MaxCalls
        /\ Returned
        /\ NeedsConsolidation(session)
        /\ IF AlreadyConsolidating(key)
           THEN /\ Called("ConsolidateIfNeeded", key, sess, "already consolidating")
                /\ UNCHANGED <<consolidating, consolidations>>
           ELSE /\ session.LastConsolidated < endConsolidate(session)
                /\ consolidating' = consolidating \cup {key}
                /\ consolidations' = Append(consolidations,
                        [key |-> key, sess |-> sess,
                         endConsolidate |-> endConsolidate(session)])
                /\ Called("ConsolidateIfNeeded", key, sess, "started")
        /\ UNCHANGED <<resetKeys, agentVars, memoryWrites, touched>>

\* consolidateMemory from the return of its Chat call (line 704) to the end of
\* goroutine g: after an error nothing is written; otherwise save_memory is
\* executed if the answer calls it, the cursor is set and the session the
\* goroutine holds is saved; the deferred function deletes the flag of the key
consolidateMemoryReturns(g, outcome) ==
    /\ g \in 1..Len(consolidations)
    /\ LET task == consolidations[g]
           session == [sessObjs[task.sess] EXCEPT !.LastConsolidated = task.endConsolidate]
       IN  /\ IF outcome = "error"
              THEN UNCHANGED <<sessObjs, disk, cache>>
              ELSE /\ sessObjs' = [sessObjs EXCEPT ![task.sess] = session]
                   /\ SaveSession(session, task.sess)
           /\ smLast' = [op |-> "consolidateMemory", key |-> task.key, sess |-> task.sess,
                         result |-> outcome]
           /\ consolidating' = consolidating \ {task.key}
    /\ memoryWrites' = IF outcome = "save_memory" THEN memoryWrites + 1 ELSE memoryWrites
    /\ consolidations' = SubSeq(consolidations, 1, g - 1)
                            \o SubSeq(consolidations, g + 1, Len(consolidations))
    /\ UNCHANGED <<resetKeys, smCalls, accessOrder, toolContext, workers, turns, agentSent,
                   added, touched>>

\* processMessage, lines 275-288: the "/new" command for a key, to its end
NewCommand(key) ==
    /\ smCalls < MaxCalls
    /\ Returned
    /\ newSessionCommand(key)
    /\ added' = MapPut(added, safeFilename(key), <<>>)
    /\ resetKeys' = resetKeys \cup {key}
    /\ Called("/new", key, Len(sessObjs) + 1, "nil")
    /\ UNCHANGED <<consolidating, consolidations, accessOrder, toolContext, workers, turns,
                   agentSent, memoryWrites, touched>>

nonConsolidationVars == <<busVars, cronVars, subVars, toolVars, saveVars, telegramVars, gwVars>>
ConsolidationStarts ==
    \E sess \in 1..Len(sessObjs) : ConsolidateIfNeeded(sess) /\ UNCHANGED nonConsolidationVars
ConsolidationReturns ==
    \E g \in 1..Len(consolidations) : \E outcome \in ConsolidationOutcomes :
        consolidateMemoryReturns(g, outcome) /\ UNCHANGED nonConsolidationVars
NewCommandCompletes ==
    \E key \in SessionKeys : NewCommand(key) /\ UNCHANGED nonConsolidationVars

NextConsolidation ==
    \/ CallGetOrCreate
    \/ CallAddMessage
    \/ ConsolidationStarts
    \/ ConsolidationReturns
    \/ NewCommandCompletes

(***************************************************************************)
(* SessionManager.Save step by step, for callers that run at the same      *)
(* time: internal/session/session.go, lines 391-434.  A file is a sequence *)
(* of lines and every caller writes through its own descriptor, at its own *)
(* offset.                                                                 *)
(***************************************************************************)
\* what a range of a file reads as when nothing was written there
Hole == BadLine("zero bytes")

\* a write of one line through a descriptor whose offset is at line `offset`
WriteAt(file, offset, line) ==
    IF offset < Len(file) THEN [file EXCEPT ![offset + 1] = line]
    ELSE file \o [i \in 1..(offset - Len(file)) |-> Hole] \o <<line>>

\* session.mu is held in shared mode: by a Save between lines 421 and its return
RLocked(sess) == \E s \in Savers : saving[s].sess = sess /\ saving[s].pc = "messages"

\* Save, lines 392-403: os.Create truncates the file or creates it empty
SaveCreate(s, sess) ==
    /\ saving[s].pc = "idle"
    /\ disk' = MapPut(disk, safeFilename(sessObjs[sess].Key), <<>>)
    /\ saving' = [saving EXCEPT ![s] = [NotSaving EXCEPT !.pc = "metadata", !.sess = sess]]
    /\ UNCHANGED <<sessObjs, cache>>

\* Save, lines 405-418: the metadata record is encoded from the fields of the
\* session and written, before session.mu is taken
SaveMetadata(s) ==
    /\ saving[s].pc = "metadata"
    /\ LET session == sessObjs[saving[s].sess]
           file == safeFilename(session.Key)
           line == MetaLine(session.Key, session.LastConsolidated)
       IN  /\ disk' = MapPut(disk, file, WriteAt(disk[file], saving[s].offset, line))
           /\ saving' = [saving EXCEPT ![s].pc = "rlock", ![s].offset = @ + 1,
                                     ![s].out = Append(@, line)]
    /\ UNCHANGED <<sessObjs, cache>>

\* Save, line 421: session.mu.RLock(), which other readers do not exclude
SaveRLock(s) ==
    /\ saving[s].pc = "rlock"
    /\ saving' = [saving EXCEPT ![s].pc = "messages", ![s].next = 1]
    /\ UNCHANGED <<sessObjs, cache, disk>>

\* Save, lines 423-427: one message of session.Messages is encoded and written
SaveMessage(s) ==
    /\ saving[s].pc = "messages"
    /\ LET session == sessObjs[saving[s].sess]
           file == safeFilename(session.Key)
       IN  /\ saving[s].next <= Len(session.Messages)
           /\ LET line == MsgLine(session.Messages[saving[s].next])
              IN  /\ disk' = MapPut(disk, file, WriteAt(disk[file], saving[s].offset, line))
                  /\ saving' = [saving EXCEPT ![s].next = @ + 1, ![s].offset = @ + 1,
                                            ![s].out = Append(@, line)]
    /\ UNCHANGED <<sessObjs, cache>>

\* Save, lines 429-433: after the last message the session is stored in the
\* cache; the deferred RUnlock and file.Close run
SaveReturn(s) ==
    /\ saving[s].pc = "messages"
    /\ saving[s].next > Len(sessObjs[saving[s].sess].Messages)
    /\ cache' = MapPut(cache, sessObjs[saving[s].sess].Key, saving[s].sess)
    /\ saving' = [saving EXCEPT ![s].pc = "done"]
    /\ UNCHANGED <<sessObjs, disk>>

\* sess.AddMessage takes session.mu exclusively (session.go, lines 100-102)
AddMessageLocked(sess) ==
    /\ ~RLocked(sess)
    /\ SmAddMessage(sess, "user", <<"more">>)

\* consolidateMemory, line 724: sess.LastConsolidated = endConsolidate, written
\* without session.mu
SetLastConsolidated(sess) ==
    /\ smCalls < MaxCalls
    /\ NeedsConsolidation(sessObjs[sess])
    /\ sessObjs' = [sessObjs EXCEPT ![sess].LastConsolidated = endConsolidate(sessObjs[sess])]
    /\ Called("consolidateMemory", sessObjs[sess].Key, sess, "cursor set")
    /\ UNCHANGED <<cache, disk, added>>

saveFrame == <<accessOrder, toolContext, workers, turns, agentSent>>
nonSaveVars == <<busVars, cronVars, subVars, toolVars, consVars, telegramVars, gwVars>>
SaveCreates ==
    \E s \in Savers : \E sess \in 1..Len(sessObjs) :
        SaveCreate(s, sess) /\ UNCHANGED <<saveFrame, added, sessVars, nonSaveVars>>
SaveWritesMetadata ==
    \E s \in Savers : SaveMetadata(s) /\ UNCHANGED <<saveFrame, added, sessVars, nonSaveVars>>
SaveTakesRLock ==
    \E s \in Savers : SaveRLock(s) /\ UNCHANGED <<saveFrame, added, sessVars, nonSaveVars>>
SaveWritesMessage ==
    \E s \in Savers : SaveMessage(s) /\ UNCHANGED <<saveFrame, added, sessVars, nonSaveVars>>
SaveReturns ==
    \E s \in Savers : SaveReturn(s) /\ UNCHANGED <<saveFrame, added, sessVars, nonSaveVars>>
AddsMessage ==
    \E sess \in 1..Len(sessObjs) :
        AddMessageLocked(sess) /\ UNCHANGED <<saving, nonSaveVars>>
SetsLastConsolidated ==
    \E sess \in 1..Len(sessObjs) :
        SetLastConsolidated(sess)
            /\ UNCHANGED <<saveFrame, memoryWrites, touched, saving, nonSaveVars>>
\* the callers share the one session GetOrCreate returned for the key
GetsSession == sessObjs = <<>> /\ SmGetOrCreate(K1) /\ UNCHANGED <<saving, nonSaveVars>>

NextSave ==
    \/ GetsSession
    \/ AddsMessage
    \/ SetsLastConsolidated
    \/ SaveCreates
    \/ SaveWritesMetadata
    \/ SaveTakesRLock
    \/ SaveWritesMessage
    \/ SaveReturns

(***************************************************************************)
(* The tool registry and the tools: internal/tools/registry.go, base.go,   *)
(* message.go.                                                             *)
(***************************************************************************)
MaxToolCalls == 3        \* registry calls made

\* func NewBaseTool(name, description string, parameters map[string]interface{}):
\* of the schema, the names under "required" and the Go type of the slice
\* that holds them
NewBaseTool(name, required, sliceType) ==
    [name |-> name, parameters |-> [required |-> required, sliceType |-> sliceType]]

\* func NewMessageTool(sendChan): "required": []string{"content"}
NewMessageTool == NewBaseTool("message", <<"content">>, "[]string")

\* func NewSaveMemoryTool(memoryStore):
\* "required": []string{"history_entry", "memory_update"}
NewSaveMemoryTool ==
    NewBaseTool("save_memory", <<"history_entry", "memory_update">>, "[]string")

\* a tool whose schema was decoded from JSON: "required" is a []interface{}
NewDecodedTool == NewBaseTool("decoded", <<"content">>, "[]interface{}")

RegisteredTools == {NewMessageTool, NewSaveMemoryTool, NewDecodedTool}
ToolNames == {tool.name : tool \in RegisteredTools}

\* the nil a lookup in r.tools yields for a name without entry
NoTool == NewBaseTool("", <<>>, "nil")

\* the parameter maps the callers of the registry pass: each key is absent or
\* holds a string
ParamValues ==
    [content : {"", "hi"}, channel : {EmptyStr, Str("slack")}, chat_id : {Str("C1")},
     history_entry : {"h"}]
TestParams ==
    {[key \in keys |-> full[key]] :
        full \in ParamValues,
        keys \in SUBSET {"content", "channel", "chat_id", "history_entry"}}

\* v, _ := params[key].(string)
StringParam(params, key, zero) == IF key \in DOMAIN params THEN params[key] ELSE zero

\* func (t *BaseTool) ValidateParams(params map[string]interface{}) []string:
\* required, ok := t.parameters["required"].([]interface{}); if !ok, no error
\* is reported
ValidateParams(tool, params) ==
    IF tool.parameters.sliceType # "[]interface{}"
    THEN <<>>
    ELSE LET required == tool.parameters.required
             missing == SelectSeq(required, LAMBDA req : req \notin DOMAIN params)
         IN  [i \in 1..Len(missing) |-> <<"missing required parameter: ", missing[i]>>]

\* %v of a []string
RECURSIVE Flatten(_)
Flatten(strings) ==
    IF strings = <<>> THEN <<>> ELSE Head(strings) \o Flatten(Tail(strings))

\* what a tool's Execute returns, and what it leaves in the message channel
Returns(result, err, chan) == [result |-> result, err |-> err, chan |-> chan]

messageChanCap == 100

\* the JSON text the message tool sends: the fields it sets
MsgJSON(content, channel, chatID) ==
    [k \in {"content"} \cup (IF channel # EmptyStr THEN {"channel"} ELSE {})
                       \cup (IF chatID # EmptyStr THEN {"chat_id"} ELSE {})
        |-> CASE k = "content" -> content
              [] k = "channel" -> channel
              [] k = "chat_id" -> chatID]

\* func (t *MessageTool) Execute(ctx, params) (string, error)
MessageToolExecute(params) ==
    LET content == StringParam(params, "content", "")
        given == [Channel |-> StringParam(params, "channel", EmptyStr),
                  ChatID |-> StringParam(params, "chat_id", EmptyStr)]
        channel == IF given.Channel = EmptyStr THEN toolContext.message.Channel
                   ELSE given.Channel
        chatID == IF given.ChatID = EmptyStr THEN toolContext.message.ChatID
                  ELSE given.ChatID
    IN  IF content = ""
        THEN Returns("", "missing or invalid content parameter", messageChan)
        ELSE IF Len(messageChan) < messageChanCap
        THEN Returns("Message sent", "nil",
                     Append(messageChan, MsgJSON(content, channel, chatID)))
        ELSE Returns("", "message channel not ready", messageChan)

\* func (t *SaveMemoryTool) Execute(ctx, params) (string, error)
SaveMemoryToolExecute(params) ==
    IF /\ StringParam(params, "history_entry", "") = ""
       /\ StringParam(params, "memory_update", "") = ""
    THEN Returns("Error: history_entry and memory_update are required", "nil", messageChan)
    ELSE Returns("Memory saved successfully", "nil", messageChan)

\* tool.Execute(ctx, params), by the type of the tool
ToolExecute(tool, params) ==
    CASE tool.name = "message" -> MessageToolExecute(params)
      [] tool.name = "save_memory" -> SaveMemoryToolExecute(params)
      [] OTHER -> Returns("done", "nil", messageChan)

\* the strings ToolRegistry.Execute formats
ToolNotFound(name) == <<"Error: Tool '", name, "' not found">>
InvalidParameters(name, errors) ==
    <<"Error: Invalid parameters for tool '", name, "': ">> \o Flatten(errors)
ErrorExecuting(name, err) == <<"Error executing ", name, ": ", err>>

RegistryCalled(op, name, params, result) ==
    toolLast' = [op |-> op, name |-> name, params |-> params, result |-> result,
                 calls |-> toolLast.calls + 1]

\* func (r *ToolRegistry) Register(tool Tool)
Register(tool) ==
    /\ toolLast.calls < MaxToolCalls
    /\ tools' = [tools EXCEPT ![tool.name] = tool]
    /\ RegistryCalled("Register", tool.name, <<>>, <<>>)
    /\ UNCHANGED <<messageChan, toolRuns, sentTo, allowFrom, fsVars>>

\* func (r *ToolRegistry) Unregister(name string)
Unregister(name) ==
    /\ toolLast.calls < MaxToolCalls
    /\ tools' = [tools EXCEPT ![name] = NoTool]
    /\ RegistryCalled("Unregister", name, <<>>, <<>>)
    /\ UNCHANGED <<messageChan, toolRuns, sentTo, allowFrom, fsVars>>

\* func (r *ToolRegistry) Execute(ctx, name string, params) string
Execute(name, params) ==
    /\ toolLast.calls < MaxToolCalls
    /\ LET tool == tools[name]
           errors == ValidateParams(tool, params)
           ret == ToolExecute(tool, params)
       IN  IF tool = NoTool
           THEN /\ RegistryCalled("Execute", name, params, ToolNotFound(name))
                /\ UNCHANGED <<messageChan, toolRuns>>
           ELSE IF Len(errors) > 0
           THEN /\ RegistryCalled("Execute", name, params, InvalidParameters(name, errors))
                /\ UNCHANGED <<messageChan, toolRuns>>
           ELSE /\ toolRuns' = Append(toolRuns, [name |-> name, params |-> params])
                /\ messageChan' = ret.chan
                /\ RegistryCalled("Execute", name, params,
                                  IF ret.err # "nil" THEN ErrorExecuting(name, ret.err)
                                  ELSE <<ret.result>>)
    /\ UNCHANGED <<tools, sentTo, allowFrom, fsVars>>

\* m.channels: the names of the adapters the channel manager has started
RunningChannels == {Str("telegram"), Str("slack")}

\* the goroutine main starts to bridge the message tool to the bus: it takes
\* the next JSON message off the channel, builds an OutboundMessage from it and
\* publishes it; the error of the publish is dropped
MessageToolBridge ==
    /\ messageChan # <<>>
    /\ messageChan' = Tail(messageChan)
    /\ LET msgData == Head(messageChan)
           content == StringParam(msgData, "content", "")
           given == StringParam(msgData, "channel", EmptyStr)
           chatID == StringParam(msgData, "chat_id", EmptyStr)
           channel == IF given = EmptyStr THEN Str("telegram") ELSE given
       IN  PublishOutbound(OutMsg(channel, chatID, content, FALSE))
    /\ UNCHANGED <<tools, toolRuns, toolLast, sentTo, allowFrom, fsVars>>

\* func processOutbound(ctx, msgBus, channelManager), one turn of its loop:
\* ConsumeOutbound, then GetChannel(msg.Channel) and channel.Send(msg)
processOutbound(c) ==
    /\ ~consumerDone[c]
    /\ LET msg == IF Len(outbound) > 0 THEN Head(outbound) ELSE ZeroOutbound
       IN  /\ ConsumeOutbound(c)
           /\ sentTo' = IF lastOp'.err = "nil" /\ msg.Channel \in RunningChannels
                         THEN Append(sentTo, [channel |-> msg.Channel, msg |-> msg])
                         ELSE sentTo
    /\ UNCHANGED <<tools, messageChan, toolRuns, toolLast, allowFrom, fsVars>>

nonToolVars == <<busVars, cronVars, subVars, agentVars, sessVars, consVars, saveVars, telegramVars, gwVars>>
nonToolBusVars == <<cronVars, subVars, agentVars, sessVars, consVars, saveVars, telegramVars, gwVars>>
ToolRegister == \E tool \in RegisteredTools : Register(tool) /\ UNCHANGED nonToolVars
ToolUnregister == \E name \in ToolNames : Unregister(name) /\ UNCHANGED nonToolVars
ToolExecutes ==
    \E name \in ToolNames : \E params \in TestParams :
        Execute(name, params) /\ UNCHANGED nonToolVars

BridgePublishes == MessageToolBridge /\ UNCHANGED nonToolBusVars
OutboundDispatch == processOutbound("c1") /\ UNCHANGED nonToolBusVars

NextTools ==
    \/ ToolRegister
    \/ ToolUnregister
    \/ ToolExecutes
    \/ BridgePublishes
    \/ OutboundDispatch

(***************************************************************************)
(* The channel adapters on the inbound side: internal/channels/manager.go  *)
(* (telegram) and part_006 (whatsapp, dingtalk, slack).                    *)
(***************************************************************************)
\* strconv.FormatInt(msg.From.ID, 10), then "%s|%s" with the username if the
\* sender has one
TelegramSenderID(from) ==
    IF from.Username # EmptyStr THEN from.ID \o <<"|">> \o from.Username ELSE from.ID

\* func (c *TelegramChannel) handleUpdate(update TelegramUpdate), for a text
\* message and no input handler
handleUpdate(update) ==
    LET msg == update.Message
        senderID == TelegramSenderID(msg.From)
    IN  IF msg.Text = ""
        THEN UNCHANGED busVars
        ELSE IF /\ allowFrom.telegram # {}
                /\ senderID \notin allowFrom.telegram
                /\ msg.From.ID \notin allowFrom.telegram
        THEN UNCHANGED busVars
        ELSE PublishInbound(InMsg(Str("telegram"), senderID, msg.Chat, msg.Text))

\* func (c *WhatsAppChannel) handleMessage(msg WhatsAppMessage)
handleWhatsAppMessage(msg) ==
    IF allowFrom.whatsapp # {} /\ msg.From \notin allowFrom.whatsapp
    THEN UNCHANGED busVars
    ELSE PublishInbound(InMsg(Str("whatsapp"), msg.From, msg.From, msg.Body))

\* func handleDingTalkMessage(eventData map[string]interface{}, msgBus)
handleDingTalkMessage(eventData) ==
    PublishInbound(InMsg(Str("dingtalk"), eventData.SenderId, eventData.ConversationId,
                         eventData.Content))

\* the events the platforms deliver
Senders == {Str("U1"), Str("U2")}
TelegramUpdates ==
    {[Message |-> [From |-> [ID |-> id, Username |-> name], Chat |-> Str("42"),
                   Text |-> text]] :
        id \in Senders, name \in {EmptyStr, Str("bob")}, text \in {"", "hi"}}
WhatsAppMessages == {[From |-> from, Body |-> "hi"] : from \in Senders}
DingTalkEvents ==
    {[SenderId |-> sender, ConversationId |-> Str("D1"), Content |-> "hi"] :
        sender \in Senders}
SlackMessages == {[user |-> user, channel |-> Str("C1"), text |-> "hi"] : user \in Senders}

\* the allowFrom lists of the configuration: every adapter gets the same one
AllowLists == {{}, {Str("U1")}, {Str("U1") \o <<"|">> \o Str("bob")}}

TelegramDelivers ==
    \E update \in TelegramUpdates :
        Inbounds < MaxPublish /\ handleUpdate(update) /\ UNCHANGED nonBusVars
WhatsAppDelivers ==
    \E msg \in WhatsAppMessages :
        Inbounds < MaxPublish /\ handleWhatsAppMessage(msg) /\ UNCHANGED nonBusVars
DingTalkDelivers ==
    \E eventData \in DingTalkEvents :
        Inbounds < MaxPublish /\ handleDingTalkMessage(eventData) /\ UNCHANGED nonBusVars
SlackChannelDelivers ==
    \E eventData \in SlackMessages :
        Inbounds < MaxPublish /\ handleMessage(eventData) /\ UNCHANGED nonBusVars

NextChannels ==
    \/ TelegramDelivers
    \/ WhatsAppDelivers
    \/ DingTalkDelivers
    \/ SlackChannelDelivers
    \/ ClientConsumeInbound

(***************************************************************************)
(* The filesystem tool: internal/tools/filesystem.go.  A path is the       *)
(* sequence of its characters.                                             *)
(***************************************************************************)
MaxFsCalls == 2          \* Execute calls made

Slash == "/"

\* strings.HasPrefix(text, prefix)
HasPrefix(text, prefix) ==
    Len(text) >= Len(prefix) /\ SubSeq(text, 1, Len(prefix)) = prefix

\* filepath.IsAbs(path)
IsAbs(path) == HasPrefix(path, <<Slash>>)

\* the elements of a path between its separators, the empty ones included
RECURSIVE SplitPath(_, _)
SplitPath(path, element) ==
    IF path = <<>> THEN <<element>>
    ELSE IF Head(path) = Slash THEN <<element>> \o SplitPath(Tail(path), <<>>)
    ELSE SplitPath(Tail(path), Append(element, Head(path)))

DotDot == <<".", ".">>

\* filepath.Clean, on the elements: empty elements and "." go, ".." takes the
\* element before it with it, ".." at the root goes, a leading ".." of a
\* relative path stays
RECURSIVE CleanElements(_, _, _)
CleanElements(elements, kept, rooted) ==
    IF elements = <<>> THEN kept
    ELSE LET element == Head(elements)
             rest == Tail(elements)
         IN  IF element = <<>> \/ element = <<".">>
             THEN CleanElements(rest, kept, rooted)
             ELSE IF element = DotDot
             THEN IF kept # <<>> /\ kept[Len(kept)] # DotDot
                  THEN CleanElements(rest, SubSeq(kept, 1, Len(kept) - 1), rooted)
                  ELSE IF rooted THEN CleanElements(rest, kept, rooted)
                  ELSE CleanElements(rest, Append(kept, element), rooted)
             ELSE CleanElements(rest, Append(kept, element), rooted)

RECURSIVE JoinElements(_)
JoinElements(elements) ==
    IF elements = <<>> THEN <<>>
    ELSE IF Len(elements) = 1 THEN elements[1]
    ELSE elements[1] \o <<Slash>> \o JoinElements(Tail(elements))

\* func Clean(path string) string of path/filepath
Clean(path) ==
    LET rooted == IsAbs(path)
        kept == CleanElements(SplitPath(path, <<>>), <<>>, rooted)
    IN  IF rooted THEN <<Slash>> \o JoinElements(kept)
        ELSE IF kept = <<>> THEN <<".">>
        ELSE JoinElements(kept)

\* filepath.Join(first, second)
Join(first, second) ==
    IF first = <<>> THEN (IF second = <<>> THEN <<>> ELSE Clean(second))
    ELSE IF second = <<>> THEN Clean(first)
    ELSE Clean(first \o <<Slash>> \o second)

\* the working directory of the process and the home directory of its user
Getwd == <<Slash, "r">>
UserHomeDir == <<Slash, "h">>

\* filepath.Abs(path)
Abs(path) == IF IsAbs(path) THEN Clean(path) ELSE Join(Getwd, path)

\* func NewFilesystemTool(workspace string, restrict bool) *FilesystemTool
NewFilesystemTool(workspace, restrict) == [workspace |-> workspace, restrict |-> restrict]

\* cfg.GetWorkspacePath()
Workspace == <<Slash, "w">>

\* func (t *FilesystemTool) resolvePath(path string) (string, error)
resolvePath(t, path) ==
    LET joined == IF HasPrefix(path, <<"~", Slash>>)
                  THEN Join(UserHomeDir, SubSeq(path, 3, Len(path)))
                  ELSE IF ~IsAbs(path) THEN Join(t.workspace, path)
                  ELSE path
        absPath == Abs(joined)
    IN  IF t.restrict /\ ~HasPrefix(absPath, Abs(t.workspace))
        THEN [path |-> <<>>, err |-> "outside workspace"]
        ELSE [path |-> absPath, err |-> "nil"]

Operations == {"read", "write", "list", "delete", "exists"}

\* func (t *FilesystemTool) Execute(ctx, params) (string, error): the checks
\* on the parameters, resolvePath, then the operation on the resolved path
FilesystemToolExecute(params) ==
    /\ fsLast.calls < MaxFsCalls
    /\ LET operation == StringParam(params, "operation", "")
           path == StringParam(params, "path", <<>>)
           resolved == resolvePath(fsTool, path)
           err == IF "operation" \notin DOMAIN params THEN "missing operation parameter"
                  ELSE IF path = <<>> THEN "missing path parameter"
                  ELSE IF resolved.err # "nil" THEN resolved.err
                  ELSE IF operation \notin Operations THEN "unknown operation"
                  ELSE "nil"
       IN  /\ fsOps' = IF err = "nil"
                       THEN Append(fsOps, [operation |-> operation, path |-> resolved.path])
                       ELSE fsOps
           /\ fsLast' = [params |-> params, err |-> err, calls |-> fsLast.calls + 1]
    /\ UNCHANGED <<fsTool, tools, messageChan, toolRuns, toolLast, sentTo, allowFrom>>

\* the paths the model asks for
TestPaths ==
    {<<"a">>, <<".", ".", Slash, "a">>, <<Slash, "w", Slash, "a">>,
     <<Slash, "w", "x", Slash, "a">>, <<".", ".", Slash, "w", "x", Slash, "a">>,
     <<Slash, "e">>, <<Slash, "w", Slash, ".", ".", Slash, "e">>, <<"~", Slash, "a">>,
     <<Slash, "w">>, <<"a", Slash, ".", Slash, "b">>}
FsParams ==
    {[operation |-> operation, path |-> path] :
        operation \in Operations \cup {"chmod"}, path \in TestPaths}
    \cup {[operation |-> "read"], [path |-> <<"a">>]}

Adapters == {"telegram", "whatsapp", "dingtalk", "slack"}

\* pollUpdates: baseDelay := 1 * time.Second, maxDelay := 30 * time.Second
baseDelay == 1
maxDelay == 30

\* func NewToolRegistry() *ToolRegistry, the channel main makes for the message
\* tool, and the adapters, each constructed with the allowFrom of its
\* configuration
InitToolsOn(allowLists) ==
    /\ allowFrom = allowLists
    /\ tools = [name \in ToolNames |-> NoTool]
    /\ messageChan = <<>>
    /\ toolRuns = <<>>
    /\ toolLast = [op |-> "", name |-> "", params |-> <<>>, result |-> <<>>, calls |-> 0]
    /\ sentTo = <<>>
    /\ fsTool = NewFilesystemTool(Workspace, TRUE)
    /\ fsOps = <<>>
    /\ fsLast = [params |-> <<>>, err |-> "", calls |-> 0]
    /\ pollPc = "loop"
    /\ pollRunning = TRUE
    /\ delay = baseDelay
    /\ polls = 0
    /\ slept = <<>>
    /\ handlers = <<>>
    /\ splitIn = <<>>
    /\ splitMax = 0
    /\ splitText = <<>>
    /\ splitParts = <<>>
    /\ splitPc = "idle"
    /\ gwPc = 0
    /\ rootDone = FALSE
    /\ gwSteps = <<>>
    /\ wgRunning = {"processOutbound", "bridge"}
    /\ executed = <<>>

\* the same, with no adapter configured with an allowlist
InitTools == InitToolsOn([adapter \in Adapters |-> {}])

FilesystemCall ==
    \E params \in FsParams : FilesystemToolExecute(params) /\ UNCHANGED nonToolVars

NextFilesystem == FilesystemCall

(***************************************************************************)
(* CronTool.addJob of package tools: internal/tools/filesystem.go, lines   *)
(* 408-524.  every_seconds is a float64; the model writes it as a number   *)
(* of ticks, TicksPerSecond ticks to the second, so that fractional values *)
(* of every_seconds are inputs.                                            *)
(***************************************************************************)
TicksPerSecond == 2   \* the clock of the scheduler ticks twice a second
MaxEveryTicks == 4    \* largest every_seconds of a call, in ticks
MaxLaunches == 3      \* launches of one job that are looked at

\* int64(everySeconds): the conversion of a positive float64 drops the fraction
Int64OfSeconds(ticks) == ticks \div TicksPerSecond

\* addJob, line 467: EveryMs: int64(everySeconds) * 1000, written in ticks
EveryMsOf(ticks) == Int64OfSeconds(ticks) * TicksPerSecond

\* addJob with mode "message", a message and every_seconds > 0 (lines 463-470
\* and 500-514): the schedule is built and handed to AddJob
CronToolAddJob(everySeconds) ==
    /\ everySeconds > 0
    /\ AddJob(Schedule("every", EveryMsOf(everySeconds), 0), FALSE)
    /\ toolRuns' = Append(toolRuns, [name |-> "cron",
                                     params |-> [every_seconds |-> everySeconds]])
    /\ UNCHANGED <<tools, messageChan, toolLast, sentTo, allowFrom, fsVars>>

nonCronToolVars == <<busVars, subVars, agentVars, sessVars, consVars, saveVars, telegramVars, gwVars>>
CronToolAddsJob ==
    /\ Len(jobObjs) < MaxJobs
    /\ \E everySeconds \in 1..MaxEveryTicks : CronToolAddJob(everySeconds)
    /\ UNCHANGED nonCronToolVars
CronToolJobRuns ==
    /\ \A id \in 1..Len(launches) : Len(launches[id]) < MaxLaunches
    /\ checkAndRun

NextCronTool ==
    \/ Tick
    \/ CronToolAddsJob
    \/ RunLoopTop
    \/ RunLoopWake
    \/ CronToolJobRuns

(***************************************************************************)
(* splitMessage of package channels: internal/channels/manager.go, lines   *)
(* 984-1017.  A text is a sequence of bytes; the bytes that matter to the  *)
(* function are the newline, the space and any other byte.                 *)
(***************************************************************************)
MaxTextLen == 5       \* longest text given to splitMessage
MaxSplitLen == 3      \* largest maxLen given to splitMessage
MaxParts == 7         \* the loop of splitMessage is followed up to this many parts

Bytes == {"a", " ", "\n"}
Texts == UNION {[1..n -> Bytes] : n \in 0..MaxTextLen}

\* func LastIndex(s, substr string) int, for a substr of one byte: the index
\* from 0 of its last occurrence in s, or -1
LastIndex(s, byte) ==
    IF \E i \in 1..Len(s) : s[i] = byte
    THEN (CHOOSE i \in 1..Len(s) : s[i] = byte /\ \A j \in (i + 1)..Len(s) : s[j] # byte) - 1
    ELSE -1

\* splitMessage, lines 1000-1012: cut := text[:maxLen]; pos is the last
\* newline of cut, else its last space, else maxLen
SplitPos(text, maxLen) ==
    LET cut == SubSeq(text, 1, maxLen)
        nl == LastIndex(cut, "\n")
        sp == LastIndex(cut, " ")
    IN  IF nl # -1 THEN nl ELSE IF sp # -1 THEN sp ELSE maxLen

\* splitMessage, lines 984-991: the call; a text that fits is returned as the
\* only part
SplitCall(text, maxLen) ==
    /\ splitPc = "idle"
    /\ splitIn' = text
    /\ splitMax' = maxLen
    /\ IF Len(text) <= maxLen
       THEN /\ splitParts' = <<text>>
            /\ splitText' = text
            /\ splitPc' = "returned"
       ELSE /\ splitParts' = <<>>
            /\ splitText' = text
            /\ splitPc' = "loop"

\* splitMessage, lines 992-1016: one turn of for len(text) > 0
SplitLoop ==
    /\ splitPc = "loop"
    /\ UNCHANGED <<splitIn, splitMax>>
    /\ IF Len(splitText) = 0
       THEN /\ splitPc' = "returned"
            /\ UNCHANGED <<splitText, splitParts>>
       ELSE IF Len(splitText) <= splitMax
       THEN /\ splitParts' = Append(splitParts, splitText)
            /\ splitText' = <<>>
            /\ splitPc' = "returned"
       ELSE LET pos == SplitPos(splitText, splitMax)
            IN  /\ splitParts' = Append(splitParts, SubSeq(splitText, 1, pos))
                /\ splitText' = SubSeq(splitText, pos + 1, Len(splitText))
                /\ UNCHANGED splitPc

nonSplitVars ==
    <<busVars, cronVars, subVars, agentVars, sessVars, toolVars, consVars, saveVars, gwVars,
      pollVars>>
SplitCalled ==
    \E text \in Texts, maxLen \in 1..MaxSplitLen :
        SplitCall(text, maxLen) /\ UNCHANGED nonSplitVars
SplitLoops == Len(splitParts) < MaxParts /\ SplitLoop /\ UNCHANGED nonSplitVars

NextSplit ==
    \/ SplitCalled
    \/ SplitLoops

(***************************************************************************)
(* TelegramChannel.pollUpdates and the goroutines it starts:               *)
(* internal/channels/manager.go, lines 557-607.  Durations are in seconds. *)
(***************************************************************************)
MaxPolls == 6         \* calls of getUpdates

\* what getUpdates returns: updates, an error whose text names a transport
\* failure ("unexpected EOF", "connection reset", "network is unreachable"),
\* or any other error
PollOutcomes == {"updates", "temporary error", "hard error"}

\* pollUpdates, lines 569-588: the delay after an error, which is slept and
\* kept for the next error
NextDelay(d, err) ==
    LET next == IF err = "temporary error" THEN 2
                ELSE IF d * 2 > maxDelay THEN maxDelay ELSE d * 2
    IN  [sleep |-> next, delay |-> next]

\* pollUpdates, lines 562-565: for c.running { select { case <-ctx.Done(): return
PollLoop ==
    /\ Alive
    /\ pollPc = "loop"
    /\ pollPc' = IF ~pollRunning \/ rootDone THEN "exited" ELSE "getUpdates"
    /\ UNCHANGED <<pollRunning, delay, polls, slept, handlers>>

\* pollUpdates, lines 566-604: getUpdates returns; after an error the loop
\* sleeps and goes on, otherwise the delay is reset and a goroutine is started
\* for each update
PollReturns(outcome, updates) ==
    /\ Alive
    /\ pollPc = "getUpdates"
    /\ polls < MaxPolls
    /\ polls' = polls + 1
    /\ pollPc' = "loop"
    /\ IF outcome = "updates"
       THEN /\ delay' = baseDelay
            /\ handlers' = handlers \o updates
            /\ UNCHANGED slept
       ELSE /\ delay' = NextDelay(delay, outcome).delay
            /\ slept' = Append(slept, [err |-> outcome, was |-> delay,
                                       delay |-> NextDelay(delay, outcome).sleep])
            /\ UNCHANGED handlers
    /\ UNCHANGED pollRunning

\* go c.handleUpdate(update), line 599: the goroutine runs
HandlerRuns(h) ==
    /\ h \in 1..Len(handlers)
    /\ handleUpdate(handlers[h])
    /\ handlers' = SubSeq(handlers, 1, h - 1) \o SubSeq(handlers, h + 1, Len(handlers))
    /\ UNCHANGED <<pollPc, pollRunning, delay, polls, slept>>

\* func (c *TelegramChannel) Stop() error
TelegramStop == pollRunning' = FALSE /\ UNCHANGED <<pollPc, delay, polls, slept, handlers>>

nonPollVars ==
    <<busVars, cronVars, subVars, agentVars, sessVars, toolVars, consVars, saveVars, gwVars,
      splitVars>>
PollLoops == PollLoop /\ UNCHANGED nonPollVars
PollGetsUpdates ==
    \E outcome \in PollOutcomes :
        PollReturns(outcome, <<>>) /\ UNCHANGED nonPollVars
ChannelStops == pollRunning /\ TelegramStop /\ UNCHANGED nonPollVars

NextPoll ==
    \/ PollLoops
    \/ PollGetsUpdates
    \/ ChannelStops

(***************************************************************************)
(* runGateway of package main (part_002): the goroutines it starts and its *)
(* shutdown, lines 835-949.                                                *)
(***************************************************************************)
\* runGateway, lines 911-946: the steps of the shutdown in the order of the code
ShutdownSteps ==
    <<"subagentManager.StopAll", "cancel", "channelManager.StopAll", "agentLoop.Stop",
      "wg.Wait", "cronService.Stop", "mcpManager.StopAll", "msgBus.Close">>

nonGwVars ==
    <<busVars, cronVars, subVars, agentVars, sessVars, toolVars, consVars, saveVars, telegramVars>>

StepDone == /\ gwSteps' = Append(gwSteps, ShutdownSteps[gwPc])
            /\ gwPc' = gwPc + 1

\* runCLI, lines 987-991: the signal arrives and runCLI returns; the signals
\* looked at are those that arrive after the turn has made its calls
SignalArrives ==
    /\ Alive
    /\ gwPc = 0
    /\ toolRuns # <<>>
    /\ gwPc' = 1
    /\ UNCHANGED <<rootDone, gwSteps, wgRunning, executed>>
    /\ UNCHANGED nonGwVars

\* line 914: subagentManager.StopAll()
ShutdownStopSubagents ==
    /\ gwPc = 1
    /\ StopAll
    /\ StepDone
    /\ UNCHANGED <<rootDone, wgRunning, executed>>
    /\ UNCHANGED <<busVars, cronVars, agentVars, sessVars, toolVars, consVars, saveVars,
                   telegramVars>>

\* line 917: cancel()
ShutdownCancel ==
    /\ Alive
    /\ gwPc = 2
    /\ rootDone' = TRUE
    /\ StepDone
    /\ UNCHANGED <<wgRunning, executed>>
    /\ UNCHANGED nonGwVars

\* line 920: channelManager.StopAll(), which calls Stop of every adapter
ShutdownStopChannels ==
    /\ Alive
    /\ gwPc = 3
    /\ TelegramStop
    /\ StepDone
    /\ UNCHANGED <<rootDone, wgRunning, executed>>
    /\ UNCHANGED <<busVars, cronVars, subVars, agentVars, sessVars, toolVars, consVars,
                   saveVars, splitVars>>

\* line 923: agentLoop.Stop()
ShutdownStopAgent ==
    /\ Alive
    /\ gwPc = 4
    /\ StepDone
    /\ UNCHANGED <<rootDone, wgRunning, executed>>
    /\ UNCHANGED nonGwVars

\* lines 926-938: wg.Wait() in a goroutine, given up after 10 seconds.  The
\* bridge only makes non-blocking calls and is taken to return within that
\* time; processOutbound can be held longer by the Send of an adapter
ShutdownWait(timeout) ==
    /\ Alive
    /\ gwPc = 5
    /\ IF timeout THEN wgRunning = {"processOutbound"} ELSE wgRunning = {}
    /\ StepDone
    /\ UNCHANGED <<rootDone, wgRunning, executed>>
    /\ UNCHANGED nonGwVars

\* line 941: cronService.Stop()
ShutdownStopCron ==
    /\ gwPc = 6
    /\ CronServiceStop
    /\ StepDone
    /\ UNCHANGED <<rootDone, wgRunning, executed>>
    /\ UNCHANGED <<busVars, subVars, agentVars, sessVars, toolVars, consVars, saveVars,
                   telegramVars>>

\* line 944: mcpManager.StopAll()
ShutdownStopMCP ==
    /\ Alive
    /\ gwPc = 7
    /\ StepDone
    /\ UNCHANGED <<rootDone, wgRunning, executed>>
    /\ UNCHANGED nonGwVars

\* line 947: msgBus.Close() is called
ShutdownCallsClose ==
    /\ Alive
    /\ gwPc = 8
    /\ StepDone
    /\ UNCHANGED <<rootDone, wgRunning, executed>>
    /\ UNCHANGED nonGwVars

\* msgBus.Close() runs: its cancel, then close(b.inbound) and close(b.outbound)
ShutdownClose == gwPc = 9 /\ closeCalls = 0 /\ CloseCancel

\* the goroutines of cron jobs that checkAndRun has launched and that have not
\* run yet
InFlight(id) ==
    Len(launches[id]) > Cardinality({i \in 1..Len(executed) : executed[i] = id})

\* the runner runGateway gives the cron service (lines 752-767): the message
\* of a job in message mode
runnerMsg == OutMsg(Str("telegram"), Str("42"), "reminder", TRUE)

\* checkAndRun, lines 682-691: the goroutine of a launched job runs executeJob,
\* which calls the runner; it recovers from a panic
JobGoroutine(id) ==
    /\ Alive
    /\ id \in 1..Len(jobObjs)
    /\ InFlight(id)
    /\ \E r \in TrySend(outbound, outboundClosed, busDone, bufferSize, runnerMsg) :
          /\ outbound' = r.queue
          /\ pubOut' = IF r.err = "nil" THEN Append(pubOut, runnerMsg) ELSE pubOut
          /\ lastOp' = [op |-> "PublishOutbound", err |-> r.err]
    /\ executed' = Append(executed, id)
    /\ UNCHANGED <<bufferSize, inbound, inboundClosed, outboundClosed, busDone, closePc,
                   closeCalls, crashed, consumerDone, pubIn, conIn, conOut>>
    /\ UNCHANGED <<gwPc, rootDone, gwSteps, wgRunning>>
    /\ UNCHANGED <<cronVars, subVars, agentVars, sessVars, toolVars, consVars, saveVars,
                   telegramVars>>

\* the bridge goroutine, lines 854-900: select on ctx.Done() and messageChan
BridgeReturns ==
    /\ Alive
    /\ "bridge" \in wgRunning
    /\ rootDone
    /\ wgRunning' = wgRunning \ {"bridge"}
    /\ UNCHANGED <<gwPc, rootDone, gwSteps, executed>>
    /\ UNCHANGED nonGwVars
BridgeForwards ==
    /\ "bridge" \in wgRunning
    /\ MessageToolBridge
    /\ UNCHANGED nonToolBusVars

\* processOutbound, lines 953-958: ConsumeOutbound returns the error of the
\* cancelled ctx and the goroutine returns
ProcessOutboundReturns ==
    /\ Alive
    /\ "processOutbound" \in wgRunning
    /\ rootDone
    /\ wgRunning' = wgRunning \ {"processOutbound"}
    /\ UNCHANGED <<gwPc, rootDone, gwSteps, executed>>
    /\ UNCHANGED nonGwVars

\* what the process does before and during the shutdown: a turn adds a job
\* that is due, then spawns a subagent, then sends one message with the message
\* tool; Telegram delivers one update
TheUpdate ==
    [Message |-> [From |-> [ID |-> Str("U1"), Username |-> EmptyStr], Chat |-> Str("42"),
                  Text |-> "hi"]]
TurnAddsJob ==
    Len(jobObjs) = 0 /\ AddJob(Schedule("at", 0, clock), TRUE) /\ UNCHANGED nonCronVars
TurnSpawns ==
    /\ Len(jobObjs) = 1
    /\ Len(subTasks) = 0
    /\ Spawn([Channel |-> Str("slack"), ChatID |-> Str("C1")])
    /\ UNCHANGED nonSubVars
TurnSendsMessage ==
    /\ Alive
    /\ Len(subTasks) = 1
    /\ toolRuns = <<>>
    /\ LET params == [content |-> "hi", channel |-> Str("slack"), chat_id |-> Str("C1")]
       IN  /\ messageChan' = MessageToolExecute(params).chan
           /\ toolRuns' = Append(toolRuns, [name |-> "message", params |-> params])
    /\ UNCHANGED <<tools, toolLast, sentTo, allowFrom, fsVars>>
    /\ UNCHANGED nonToolVars
TelegramPolls ==
    polls = 0 /\ PollReturns("updates", <<TheUpdate>>) /\ UNCHANGED nonPollVars
HandlerGoroutine ==
    \E h \in 1..Len(handlers) :
        /\ HandlerRuns(h)
        /\ UNCHANGED <<cronVars, subVars, agentVars, sessVars, toolVars, consVars, saveVars,
                       gwVars, splitVars>>
JobGoroutineRuns == \E id \in 1..Len(jobObjs) : JobGoroutine(id)

NextShutdown ==
    \/ TurnAddsJob
    \/ RunLoopTop
    \/ RunLoopWake
    \/ checkAndRun
    \/ JobGoroutineRuns
    \/ TurnSpawns
    \/ RunSubagentChat
    \/ RunSubagentAnnounce
    \/ RunSubagentDelete
    \/ PollLoops
    \/ TelegramPolls
    \/ HandlerGoroutine
    \/ TurnSendsMessage
    \/ BridgeForwards
    \/ BridgeReturns
    \/ ProcessOutboundReturns
    \/ SignalArrives
    \/ ShutdownStopSubagents
    \/ ShutdownCancel
    \/ ShutdownStopChannels
    \/ ShutdownStopAgent
    \/ \E timeout \in BOOLEAN : ShutdownWait(timeout)
    \/ ShutdownStopCron
    \/ ShutdownStopMCP
    \/ ShutdownCallsClose
    \/ ShutdownClose
    \/ CloseInbound
    \/ CloseOutbound

(***************************************************************************)
(* The message bus: claims.                                                *)
(***************************************************************************)
Msgs(log) == [i \in 1..Len(log) |-> log[i].msg]

\* C1: on a bus that has not been shut down, a PublishInbound call never blocks
\* and either appends the message to the inbound queue and returns nil, or
\* returns ErrBusFull with the queue holding bufferSize messages and left as it
\* was; the inbound queue never holds more than bufferSize messages.
C1_PublishInboundBounded ==
    /\ [](Len(inbound) <= bufferSize)
    /\ [](\A m \in TestInbound :
             TrySend(inbound, inboundClosed, busDone, bufferSize, m) # {})
    /\ [][(lastOp'.op = "PublishInbound" /\ ~busDone) =>
            \/ /\ lastOp'.err = "nil"
               /\ Len(inbound) < bufferSize
               /\ \E m \in TestInbound :
                     inbound' = Append(inbound, m) /\ pubIn' = Append(pubIn, m)
            \/ /\ lastOp'.err = "ErrBusFull"
               /\ Len(inbound) = bufferSize
               /\ inbound' = inbound
               /\ pubIn' = pubIn]_vars

\* C1 witness: a publish on a full queue of an open bus has returned ErrBusFull
C1_Witness ==
    /\ lastOp = [op |-> "PublishInbound", err |-> "ErrBusFull"]
    /\ Len(inbound) = bufferSize
    /\ Len(pubIn) = bufferSize
    /\ ~busDone

\* C2: once Close has been called (here: and has returned), a PublishInbound or
\* PublishOutbound call returns the context error, enqueues nothing and does not
\* panic.
C2_PublishAfterClose ==
    [][(lastOp'.op \in {"PublishInbound", "PublishOutbound"} /\ CloseStage = "closed") =>
          /\ lastOp'.err = "canceled"
          /\ inbound' = inbound
          /\ outbound' = outbound
          /\ crashed' = "none"]_vars

\* C3: a second or later call of Close returns normally and does not panic.
C3_CloseIdempotent ==
    ~(lastOp.op = "Close" /\ lastOp.err = "panic") /\ crashed # "close of closed channel"

\* C4: in each queue the messages received so far followed by the messages still
\* buffered are exactly the successfully published messages in publish order:
\* every published message is received once, by one consumer, in FIFO order.
C4_FifoExactlyOnce ==
    /\ Msgs(conIn) \o inbound = pubIn
    /\ Msgs(conOut) \o outbound = pubOut
    /\ \A i \in 1..Len(conIn) : conIn[i].by \in Consumers
    /\ \A i \in 1..Len(conOut) : conOut[i].by \in Consumers

\* C4 witness: two different messages of one queue went to two competing
\* consumers while a third message is still buffered
C4_Witness ==
    /\ Len(conIn) = 2
    /\ conIn[1].by # conIn[2].by
    /\ conIn[1].msg # conIn[2].msg
    /\ Len(inbound) = 1
    /\ Len(pubIn) = 3


(***************************************************************************)
(* The cron scheduler: claims.                                             *)
(***************************************************************************)
JobIds == 1..Len(jobObjs)
AtJobs == {id \in JobIds : jobObjs[id].Schedule.Kind = "at"}
EveryJobs == {id \in JobIds : jobObjs[id].Schedule.Kind = "every"}
Scheduled(id) == id \in cronJobs \/ id \in Range(cronHeap)

\* checkAndRun has found nothing more to launch and is about to return
PassDone ==
    cronPc = "check" /\ (Len(cronHeap) = 0 \/ jobObjs[cronHeap[1]].NextRun > cronNow)

\* C8: an at(t) job is launched at most once, whatever its DeleteAfterRun flag;
\* once launched it is in neither the heap nor the by-id map; and when a pass
\* of checkAndRun that sampled now >= t ends, every such job that RemoveJob did
\* not take away has been launched exactly once and is gone from both.
C8_AtJobLaunchedOnce ==
    \A id \in AtJobs :
        /\ Len(launches[id]) <= 1
        /\ Len(launches[id]) = 1 => ~Scheduled(id)
        /\ (PassDone /\ jobObjs[id].Schedule.AtMs <= cronNow /\ id \notin removed) =>
              (Len(launches[id]) = 1 /\ ~Scheduled(id))

\* a pass ends that launched two due at-jobs, one with each value of the flag
C8_Witness ==
    /\ PassDone
    /\ \E a, b \in AtJobs :
          /\ jobObjs[a].DeleteAfterRun /\ ~jobObjs[b].DeleteAfterRun
          /\ jobObjs[a].Schedule.AtMs <= cronNow /\ jobObjs[b].Schedule.AtMs <= cronNow
          /\ launches[a] = <<cronNow>> /\ launches[b] = <<cronNow>>
          /\ ~Scheduled(a) /\ ~Scheduled(b)

\* C9: two successive launches of an every(d) job are at least d apart.
C9_EveryJobSpacing ==
    \A id \in EveryJobs :
        \A i \in 1..(Len(launches[id]) - 1) :
            launches[id][i + 1] - launches[id][i] >= jobObjs[id].Schedule.EveryMs

\* an every-job of the longest interval has been launched twice
C9_Witness ==
    \E id \in EveryJobs :
        /\ jobObjs[id].Schedule.EveryMs = MaxEvery
        /\ ~jobObjs[id].DeleteAfterRun
        /\ Len(launches[id]) >= 2

(***************************************************************************)
(* The subagent manager: claims.                                           *)
(***************************************************************************)
TaskIds == 1..Len(subTasks)
InMap(t) == subTasks[t].ID \in DOMAIN runningTasks /\ runningTasks[subTasks[t].ID] = t

\* C10: a subagent task whose goroutine has returned is no longer in the by-id
\* map, whichever way it ended: success, LLM error, iteration cap, cancellation.
C10_TaskRemovedOnExit ==
    \A t \in TaskIds : subTasks[t].pc = "done" => ~InMap(t)

\* the same, for the three ways of ending other than the LLM error
C10_RemovedUnlessLLMError ==
    \A t \in TaskIds :
        (subTasks[t].pc = "done" /\ subTasks[t].exit # "LLM error") => ~InMap(t)

(***************************************************************************)
(* The agent loop: claims.                                                 *)
(***************************************************************************)
LastTwo(messages) == SubSeq(messages, Len(messages) - 1, Len(messages))

\* C5: every reply the agent loop publishes has a non-empty channel and a
\* non-empty chat id.
C5_ReplyAddressed ==
    \A e \in agentSent : e.out.Channel # EmptyStr /\ e.out.ChatID # EmptyStr

\* C6: when a turn completes (its assistant entry is appended), the last two
\* entries of its session are the turn's user input and the turn's final reply;
\* and no entry of a session has another role than user or assistant.
C6_TurnIsLastTwoEntries ==
    /\ [](\A i \in 1..Len(sessObjs) : \A j \in 1..Len(sessObjs[i].Messages) :
            sessObjs[i].Messages[j].Role \in {"user", "assistant"})
    /\ [][\A w \in Workers :
            (workers[w].pc = "addAssistant" /\ workers'[w].pc = "save") =>
                LastTwo(sessObjs'[workers[w].sess].Messages) =
                    <<SessMsg("user", UserEntry(workers[w].msg)),
                      SessMsg("assistant", <<workers[w].final>>)>>]_vars

\* C7: a reply to a message of channel "system" whose chat id is
\* "<origin_channel>:<origin_chat_id>" goes to that origin and not to "system".
C7_SystemReplyToOrigin ==
    \A e \in agentSent :
        (e.in.Channel = Str("system") /\ Index(e.in.ChatID, Colon) # 0) =>
            /\ e.out.Channel = ParseOrigin(e.in.ChatID).Channel
            /\ e.out.ChatID = ParseOrigin(e.in.ChatID).ChatID
            /\ e.out.Channel # Str("system")

(***************************************************************************)
(* Subagent announcements: claims.                                         *)
(***************************************************************************)
\* the announcement of a subagent that spawn(task, label, "cli", "direct") started
CliAnnouncements ==
    {announceMsg(task) : task \in {t \in FinishedTasks :
        t.Origin = [Channel |-> Str("cli"), ChatID |-> Str("direct")]}}

\* C11: when the agent loop has processed the announcement of a subagent
\* spawned from ("cli", "direct"), a message of channel "system" and chat id
\* "cli:direct", and the outbound queue has room, an OutboundMessage with
\* channel "cli" and chat id "direct" has been put on the outbound queue.
C11_AnnouncementAnswered ==
    [][(/\ workers["bus"].pc = "respond"
        /\ workers'["bus"].pc = "idle"
        /\ workers["bus"].msg \in CliAnnouncements
        /\ Len(outbound) < bufferSize) =>
            /\ workers["bus"].msg.Channel = Str("system")
            /\ workers["bus"].msg.ChatID = <<"cli", Colon, "direct">>
            /\ Len(pubOut') = Len(pubOut) + 1
            /\ pubOut'[Len(pubOut')].Channel = Str("cli")
            /\ pubOut'[Len(pubOut')].ChatID = Str("direct")]_vars

(***************************************************************************)
(* Cron jobs in agent mode: claims.                                        *)
(***************************************************************************)
\* C12: while the agent invocation of an agent-mode cron job is running (it is
\* at its LLM and tool iterations), the context of the message, spawn and cron
\* tools is the job's channel and recipient.
C12_JobToolContext ==
    LET me == workers["direct"]
    IN  (me.job # NoJob /\ me.pc = "llm") =>
            toolContext = SetToolContext([Channel |-> me.job.Channel, ChatID |-> me.job.To])

(***************************************************************************)
(* The session manager and memory consolidation: claims.                   *)
(***************************************************************************)
\* C13: a consolidation run whose answer does not call save_memory leaves the
\* session's LastConsolidated cursor as it was; the cursor changes only in a
\* run that executed save_memory, and then to the end of the consolidated
\* slice.
C13_CursorOnlyAfterSaveMemory ==
    [][(smCalls' = smCalls + 1 /\ smLast'.op = "Consolidate") =>
        LET sess == smLast'.sess
            before == sessObjs[sess].LastConsolidated
            after == sessObjs'[sess].LastConsolidated
        IN  /\ smLast'.result # "save_memory" => after = before
            /\ after # before =>
                    /\ memoryWrites' = memoryWrites + 1
                    /\ after = endConsolidate(sessObjs[sess])]_vars

\* C14: the cache never holds more than maxCache sessions, and a GetOrCreate
\* that inserts a session into a full cache evicts exactly one cached session,
\* the one whose key was least recently returned by GetOrCreate.
C14_CacheBoundedLRU ==
    /\ [](Cardinality(DOMAIN cache) <= maxCache)
    /\ [][(/\ smCalls' = smCalls + 1
            /\ smLast'.op = "GetOrCreate"
            /\ smLast'.result \in {"loaded", "created"}
            /\ Cardinality(DOMAIN cache) >= maxCache) =>
                \E victim \in DOMAIN cache :
                    /\ DOMAIN cache' = (DOMAIN cache \ {victim}) \cup {smLast'.key}
                    /\ \A k \in DOMAIN cache :
                          Index(touched, victim) <= Index(touched, k)]_vars

(***************************************************************************)
(* The agent loop: claims about one turn.                                  *)
(***************************************************************************)
\* the step in which processMessages hands the outcome of a failed user turn
\* to the bus
FailedUserTurnEnds ==
    /\ workers["bus"].pc = "respond"
    /\ workers'["bus"].pc = "idle"
    /\ workers["bus"].failed
    /\ workers["bus"].msg.Channel # Str("system")

\* the reply to a failed turn: an error text for the inbound message's channel
\* and chat id
IsErrorReplyTo(out, msg) ==
    /\ out.Content = ErrorReply(ChatError)
    /\ out.Channel = msg.Channel
    /\ out.ChatID = msg.ChatID

\* a worker whose Chat failed makes no further Chat call: it only hands over
\* the outcome of the turn; and no other step of the bus worker publishes
TurnAbortedAfterChatError ==
    /\ [](\A w \in Workers : workers[w].failed => workers[w].pc = "respond")
    /\ [][(workers'["bus"] # workers["bus"] /\ workers["bus"].pc # "respond") =>
                pubOut' = pubOut]_vars

ExhaustedTurnSaves ==
    /\ workers["bus"].pc = "save"
    /\ workers'["bus"].pc = "respond"
    /\ workers["bus"].llmCalls = MaxIterations
    /\ workers["bus"].iteration = MaxIterations

\* C16: in one turn Chat is called at most MaxIterations times; when every
\* answer holds tool calls the loop is left without a further call, the
\* reply of the turn is the generic fallback sentence, and the user entry
\* followed by the fallback assistant entry are the last two entries of the
\* session and of its saved file.
C16_IterationsBounded ==
    /\ [](\A w \in Workers : workers[w].llmCalls <= MaxIterations)
    /\ [][(/\ workers["bus"].pc = "llm"
           /\ workers["bus"].iteration = MaxIterations
           /\ workers'["bus"] # workers["bus"]) =>
                /\ workers'["bus"].pc = "addUser"
                /\ workers'["bus"].llmCalls = MaxIterations
                /\ workers'["bus"].final = DefaultFinal(workers["bus"].msg)]_vars
    /\ [][ExhaustedTurnSaves =>
            LET me == workers["bus"]
                turn == <<SessMsg("user", UserEntry(me.msg)),
                          SessMsg("assistant", <<DefaultFinal(me.msg)>>)>>
                file == disk'[safeFilename(me.key)]
            IN  /\ workers'["bus"].reply.Content = DefaultFinal(me.msg)
                /\ workers'["bus"].reply.Channel = me.msg.Channel
                /\ workers'["bus"].reply.ChatID = me.msg.ChatID
                /\ LastTwo(sessObjs[me.sess].Messages) = turn
                /\ LastTwo(Decoded(file).Messages) = turn
                /\ MessageEntries(file) =
                       [i \in 1..Len(sessObjs[me.sess].Messages) |->
                           MsgLine(sessObjs[me.sess].Messages[i])]]_vars

\* a turn whose every answer held tool calls has saved its session and is
\* about to reply with the fallback sentence
C16_Witness ==
    /\ workers["bus"].pc = "respond"
    /\ workers["bus"].llmCalls = MaxIterations
    /\ workers["bus"].iteration = MaxIterations
    /\ ~workers["bus"].failed
    /\ workers["bus"].reply.Content = "I've completed processing but have no response to give."
    /\ HasFile(workers["bus"].key)
    /\ LastTwo(Decoded(disk[safeFilename(workers["bus"].key)]).Messages) =
           <<SessMsg("user", <<"hi">>),
             SessMsg("assistant", <<"I've completed processing but have no response to give.">>)>>

\* the lines Save writes for a sequence of entries
EntryLines(entries) == [i \in 1..Len(entries) |-> MsgLine(entries[i])]

\* C17: whenever a turn has saved its session, the message entries of the
\* session's file are the entries the file held at start followed by the
\* entries AddMessage was called with for that session key, in call order
\* (counted from the last "/new" on the key).
C17_FileInAddOrder ==
    [][\A w \in Workers :
        (workers[w].pc = "save" /\ workers'[w].pc = "respond") =>
            LET file == safeFilename(workers[w].key)
            IN  MessageEntries(disk'[file]) = EntryLines(added[file])]_vars

\* a file in which every line is one that Save writes
WellFormed(file) == \A i \in 1..Len(file) : file[i].kind \notin BadKinds

\* the step in which the session GetOrCreate has just loaded from its file is
\* saved again
LoadedThenSaved ==
    /\ smLast.op = "GetOrCreate"
    /\ smLast.result = "loaded"
    /\ smCalls' = smCalls + 1
    /\ smLast'.op = "Save"
    /\ smLast'.sess = smLast.sess

\* C18: saving a session right after it was loaded from its file gives a file
\* with the same message list: the entries load reads from the new file are
\* the entries it read from the original one, and for a file as Save writes
\* it the message lines themselves are the same, in the same order.
C18_LoadSaveKeepsEntries ==
    [][LoadedThenSaved =>
        LET file == safeFilename(smLast.key)
        IN  /\ ~Decoded(disk'[file]).spins
            /\ Decoded(disk'[file]).Messages = Decoded(disk[file]).Messages
            /\ WellFormed(disk[file]) =>
                   MessageEntries(disk'[file]) = MessageEntries(disk[file])]_vars

\* the session of three pairs was loaded and saved at once, and its file holds
\* the six entries
C18_Witness ==
    /\ smCalls = 2
    /\ smLast.op = "Save"
    /\ smLast.key = K1
    /\ Len(sessObjs) = 1
    /\ MessageEntries(disk[safeFilename(K1)]) = EntryLines(Pairs(3))

\* C19: GetOrCreate on a key that is not cached and whose file holds a line
\* that is not what Save writes returns; the session it returns holds the
\* entries of the file's message lines, the other line left out; if that line
\* is the first line of the file, the session returned is empty.
C19_MalformedLineSkipped ==
    [][\A key \in SessionKeys :
        (/\ smCalls' = smCalls + 1
         /\ smLast'.op = "GetOrCreate"
         /\ smLast'.key = key
         /\ key \notin DOMAIN cache
         /\ HasFile(key)
         /\ ~WellFormed(disk[safeFilename(key)])) =>
            LET file == disk[safeFilename(key)]
            IN  /\ smLast'.result = "loaded"
                /\ smLast'.sess \in 1..Len(sessObjs')
                /\ IF file[1].kind \in BadKinds
                   THEN sessObjs'[smLast'.sess].Messages = <<>>
                   ELSE EntryLines(sessObjs'[smLast'.sess].Messages) = MessageEntries(file)]_vars

\* the step in which processMessage handles a "/new" taken from the bus
NewCommandHandled ==
    /\ workers["bus"].pc = "context"
    /\ workers'["bus"].pc = "respond"
    /\ workers["bus"].msg.Channel # Str("system")
    /\ workers["bus"].msg.Content = "/new"

\* C20: handling "/new" (in particular for a session that holds three
\* user/assistant pairs) produces an outbound message with the "/new" reply
\* text for the inbound message's channel and chat id, leaves the session's
\* file with the metadata line only and the key out of the cache; the loop
\* then publishes that message if the outbound queue has room.
C20_NewCommandResetsSession ==
    /\ [][NewCommandHandled =>
            LET me == workers["bus"]
            IN  /\ workers'["bus"].hasReply
                /\ workers'["bus"].reply =
                       OutMsg(me.msg.Channel, me.msg.ChatID, NewSessionReply, FALSE)
                /\ disk'[safeFilename(me.key)] = <<MetaLine(me.key, 0)>>
                /\ MessageEntries(disk'[safeFilename(me.key)]) = <<>>
                /\ me.key \notin DOMAIN cache']_vars
    /\ [][(/\ workers["bus"].pc = "respond"
           /\ workers'["bus"].pc = "idle"
           /\ workers["bus"].msg.Content = "/new"
           /\ Len(outbound) < bufferSize) =>
                pubOut' = Append(pubOut, workers["bus"].reply)]_vars

\* "/new" was handled for the session of three pairs: the reply is produced,
\* the file holds the metadata line only and the key is not cached
C20_Witness ==
    /\ workers["bus"].pc = "respond"
    /\ workers["bus"].key = K1
    /\ sessObjs[workers["bus"].sess].Messages = Pairs(3)
    /\ workers["bus"].reply.Content = NewSessionReply
    /\ disk[safeFilename(K1)] = <<MetaLine(K1, 0)>>
    /\ K1 \notin DOMAIN cache

(***************************************************************************)
(* The cron scheduler: further claims.                                     *)
(***************************************************************************)
\* the runLoop goroutine is blocked in a select whose timer has not fired
AsleepOnTimer == cronPc \in {"sleepEmpty", "sleepWait"} /\ clock < cronWake

\* C21: an at-job added to a running scheduler is launched (its message
\* published, the job gone from the map) within a fraction of a second of its
\* instant, whatever the scheduler was waiting on when the job was added: the
\* scheduler is never blocked on a timer while an at-job that nobody removed
\* is overdue by a whole clock tick.
C21_AtJobLaunchedPromptly ==
    \A id \in AtJobs :
        (/\ ~cronStopped
         /\ id \notin removed
         /\ jobObjs[id].Schedule.AtMs < clock
         /\ AsleepOnTimer) =>
            (Len(launches[id]) = 1 /\ id \notin cronJobs)

(***************************************************************************)
(* The tool registry: claims.                                              *)
(***************************************************************************)
\* the required parameters of a tool that a parameter map lacks, in schema order
MissingRequired(tool, params) ==
    SelectSeq(tool.parameters.required, LAMBDA req : req \notin DOMAIN params)

IsErrorText(result) ==
    Len(result) > 0 /\ result[1] \in {"Error: Tool '", "Error: Invalid parameters for tool '",
                                      "Error executing "}

\* C22: ToolRegistry.Execute returns an error text when no tool is registered
\* under the name; when the parameters lack a parameter the tool's schema
\* requires, it returns an error text that lists every missing parameter and
\* the tool's Execute is not called.
C22_ExecuteRejectsBadCalls ==
    [][(toolLast'.op = "Execute" /\ toolLast'.calls # toolLast.calls) =>
          LET name == toolLast'.name
              params == toolLast'.params
              tool == tools[name]
              missing == MissingRequired(tool, params)
          IN  /\ tool = NoTool => toolLast'.result = ToolNotFound(name)
              /\ (tool # NoTool /\ Len(missing) > 0) =>
                    /\ toolRuns' = toolRuns
                    /\ IsErrorText(toolLast'.result)
                    /\ \A i \in 1..Len(missing) :
                          \E j \in 1..Len(toolLast'.result) :
                              toolLast'.result[j] = missing[i]]_vars

\* C23: every ConsumeInbound or ConsumeOutbound call that returns, also one made
\* or pending while Close runs, returns either the oldest message published to
\* its queue and not yet received, or a cancellation error (and then leaves the
\* queue as it was).
C23_ConsumeReturnsPublishedOrCanceled ==
    [][/\ lastOp'.op = "ConsumeInbound" =>
            \/ lastOp'.err = "canceled" /\ inbound' = inbound /\ conIn' = conIn
            \/ /\ lastOp'.err = "nil"
               /\ Len(inbound) > 0
               /\ inbound' = Tail(inbound)
               /\ Msgs(conIn') = Append(Msgs(conIn), pubIn[Len(conIn) + 1])
       /\ lastOp'.op = "ConsumeOutbound" =>
            \/ lastOp'.err = "canceled" /\ outbound' = outbound /\ conOut' = conOut
            \/ /\ lastOp'.err = "nil"
               /\ Len(outbound) > 0
               /\ outbound' = Tail(outbound)
               /\ Msgs(conOut') = Append(Msgs(conOut), pubOut[Len(conOut) + 1])]_vars

\* C24: an OutboundMessage whose Channel or ChatID is empty is never passed to
\* the Send of a channel adapter, and a message the message tool sent without
\* a channel or without a chat id is discarded: nothing is published for it,
\* under no default channel.
C24_NoTargetNoDelivery ==
    /\ [](\A i \in 1..Len(sentTo) :
             sentTo[i].msg.Channel # EmptyStr /\ sentTo[i].msg.ChatID # EmptyStr)
    /\ [][(/\ messageChan # <<>>
           /\ messageChan' = Tail(messageChan)
           /\ {"channel", "chat_id"} \ DOMAIN Head(messageChan) # {}) =>
              pubOut' = pubOut]_vars

\* the sender of a published inbound message is on the allowlist of the adapter
\* that published it (for telegram: under its numeric id or under id|username)
SenderAllowed(msg) ==
    LET allowed == allowFrom[msg.Channel[1]]
    IN  \/ msg.SenderID \in allowed
        \/ msg.Channel = Str("telegram") /\ <<msg.SenderID[1]>> \in allowed

\* C25: an adapter that was constructed with a non-empty allowlist publishes
\* into the inbound queue only events of senders on that list.
C25_AllowlistEnforced ==
    \A i \in 1..Len(pubIn) :
        allowFrom[pubIn[i].Channel[1]] # {} => SenderAllowed(pubIn[i])

\* a cleaned absolute path names the directory itself or something below it
Inside(path, directory) ==
    LET elements == CleanElements(SplitPath(path, <<>>), <<>>, TRUE)
        prefix == CleanElements(SplitPath(directory, <<>>), <<>>, TRUE)
    IN  Len(elements) >= Len(prefix) /\ SubSeq(elements, 1, Len(prefix)) = prefix

\* C26: with restrict set, every file operation the filesystem tool runs is on
\* a path inside the workspace directory, and a call whose path resolves
\* outside it returns an error without running the operation.
C26_OperationsInsideWorkspace ==
    fsTool.restrict => \A i \in 1..Len(fsOps) : Inside(fsOps[i].path, fsTool.workspace)

(***************************************************************************)
(* The agent loop: claims on replies and on the tool context.              *)
(***************************************************************************)
\* C27: the reply a turn returns, for a user message and for a system message,
\* never has empty content (an empty final text of the model is replaced by
\* the completion sentence of the kind of turn), and no message the loop
\* publishes has empty content.
C27_ReplyNeverEmpty ==
    /\ \A w \in Workers : workers[w].hasReply => workers[w].reply.Content # ""
    /\ \A sent \in agentSent : sent.out.Content # ""
    /\ \A i \in 1..Len(pubOut) : pubOut[i].Content # ""

\* C27 witness: a user turn and a system-message turn whose model call gave no
\* final text have been answered, each with its completion sentence
C27_Witness ==
    /\ \E sent \in agentSent :
          /\ sent.in.Channel # Str("system")
          /\ sent.out.Content = "I've completed processing but have no response to give."
    /\ \E sent \in agentSent :
          /\ sent.in.Channel = Str("system")
          /\ sent.out.Content = "Background task completed."

\* C28: while a turn for a chat is at its LLM and tool iterations, the context
\* of the message and spawn tools (and of the cron tool, in a user turn) is
\* that chat, also when another turn has started on the loop in the meantime.
\* (The turn of an agent-mode cron job is the subject of C12.)
C28_TurnKeepsToolContext ==
    \A w \in Workers :
        LET me == workers[w]
        IN  (me.pc = "llm" /\ me.job = NoJob) =>
                /\ toolContext.message = TargetOf(me.msg)
                /\ toolContext.spawn = TargetOf(me.msg)
                /\ me.msg.Channel # Str("system") => toolContext.cron = TargetOf(me.msg)

(***************************************************************************)
(* Memory consolidation next to "/new": claims.                            *)
(***************************************************************************)
\* what GetOrCreate(key) would return now: the cached session, or the one the
\* file of the key loads to
Current(key) ==
    IF key \in DOMAIN cache THEN sessObjs[cache[key]]
    ELSE IF HasFile(key) THEN load(key) ELSE NewSession(key)

\* C29: after a "/new" for a key has completed and until an entry is added for
\* the key again, the file of the key holds no entries and GetOrCreate(key)
\* returns a session without entries, whatever a consolidation goroutine that
\* was started before the "/new" does afterwards.
C29_NewSessionStaysEmpty ==
    \A key \in resetKeys :
        added[safeFilename(key)] = <<>> =>
            /\ Decoded(disk[safeFilename(key)]).Messages = <<>>
            /\ Current(key).Messages = <<>>

(***************************************************************************)
(* The cron scheduler: claims on a pass of checkAndRun.                    *)
(***************************************************************************)
\* C30: when checkAndRun returns, the heap is empty or the NextRun of the job
\* at its top is strictly later than the now the pass sampled on entry.
C30_PassEndsWithTopInFuture ==
    [][(cronPc = "check" /\ cronPc' # "check") =>
          \/ Len(cronHeap') = 0
          \/ jobObjs'[cronHeap'[1]].NextRun > cronNow]_vars

\* C30 witness: a pass that has launched an every-job and pushed it back is
\* about to return, with that job in the heap
C30_Witness ==
    /\ cronPc = "check"
    /\ Len(cronHeap) > 0
    /\ jobObjs[cronHeap[1]].NextRun > cronNow
    /\ \E id \in EveryJobs :
          /\ id \in Range(cronHeap)
          /\ launches[id] # <<>>
          /\ launches[id][Len(launches[id])] >= cronNow
          /\ cronNow > 0

(***************************************************************************)
(* Memory consolidation: one goroutine per session key.                    *)
(***************************************************************************)
\* C31: no two consolidation goroutines that run at the same time are for the
\* same session key, also when ConsolidateIfNeeded is called for a key whose
\* consolidation is still running.
C31_OneConsolidationPerKey ==
    \A g, h \in 1..Len(consolidations) :
        g # h => consolidations[g].key # consolidations[h].key

\* a call of ConsolidateIfNeeded with the trigger true has just returned
\* because the consolidation of the key is still running
C31_Witness ==
    /\ smLast.op = "ConsolidateIfNeeded"
    /\ smLast.result = "already consolidating"
    /\ \E g \in 1..Len(consolidations) : consolidations[g].key = smLast.key

(***************************************************************************)
(* Calls of Save on one session at the same time: claims.                  *)
(***************************************************************************)
\* the caller has the file of its session open for writing
Writing(s) == saving[s].pc \in {"metadata", "rlock", "messages"}

\* no two callers have the file of one session open for writing at once
SavesSerialized ==
    \A s, t \in Savers :
        (s # t /\ saving[s].sess = saving[t].sess) => ~(Writing(s) /\ Writing(t))

\* once two calls for one session have returned, the file is what one of
\* them wrote
FileIsOneSave ==
    \A s, t \in Savers :
        (/\ s # t
         /\ saving[s].pc = "done"
         /\ saving[t].pc = "done"
         /\ saving[s].sess = saving[t].sess) =>
            disk[safeFilename(sessObjs[saving[s].sess].Key)] \in {saving[s].out, saving[t].out}

\* C32: two calls of Save on one session never write its file at the same
\* time, and when both have returned the file is the output of one of them.
C32_ConcurrentSavesSerialized == SavesSerialized /\ FileIsOneSave

(***************************************************************************)
(* The shutdown of the gateway: claims.                                    *)
(***************************************************************************)
\* the step is a publish by the goroutine of a cron job, by a subagent that
\* announces, by the bridge of the message tool, by a handler of the adapter
JobPublishes == Len(executed') > Len(executed)
SubagentPublishes ==
    \E t \in 1..Len(subTasks) : subTasks[t].pc = "announce" /\ subTasks'[t].pc # "announce"
BridgePublish == Len(messageChan') < Len(messageChan)
AdapterPublishes == Len(handlers') < Len(handlers)

\* Close has closed the inbound queue, the first it releases
Releasing == inboundClosed \/ outboundClosed

\* C33: once Close has begun to release the queues, no goroutine of a cron
\* job, no subagent, neither the bridge nor an adapter publishes on the bus.
C33_NoPublishAfterRelease ==
    [][(JobPublishes \/ SubagentPublishes \/ BridgePublish \/ AdapterPublishes)
          => ~Releasing]_vars

\* the steps of the shutdown the specification orders, as runGateway has done
\* them so far
OrderedSteps ==
    <<"cancel", "wg.Wait", "channelManager.StopAll", "agentLoop.Stop", "cronService.Stop",
      "subagentManager.StopAll", "msgBus.Close">>
DoneOrdered == SelectSeq(gwSteps, LAMBDA step : step # "mcpManager.StopAll")

\* C34: the owner cancels the root context, waits for the outstanding tasks,
\* closes the adapters, stops the agent loop, stops the scheduler, stops the
\* subagents and closes the bus, in this order.
C34_ShutdownOrder ==
    /\ Len(DoneOrdered) <= Len(OrderedSteps)
    /\ DoneOrdered = SubSeq(OrderedSteps, 1, Len(DoneOrdered))

(***************************************************************************)
(* The subagent manager: claims on the task ids.                           *)
(***************************************************************************)
\* the goroutine of the task has not returned
LiveTask(t) == subTasks[t].pc # "done"

\* C35: two subagent tasks that are live at the same time have different ids
\* (so that each has its own entry and cancel handle in the by-id map).
C35_LiveTasksDistinctIds ==
    \A t, u \in 1..Len(subTasks) :
        (t # u /\ LiveTask(t) /\ LiveTask(u)) => subTasks[t].ID # subTasks[u].ID

\* C36: whenever the scheduler lock is not held, the ids in the heap are
\* exactly the keys of the by-id map, and no id is in the heap twice, after
\* any interleaving of AddJob, RemoveJob and checkAndRun.
C36_HeapMatchesMap ==
    CronLockFree =>
        /\ Range(cronHeap) = cronJobs
        /\ \A i, j \in 1..Len(cronHeap) : i # j => cronHeap[i] # cronHeap[j]

\* The lock is free, a job was removed from a heap of two, and a job that
\* checkAndRun launched and pushed back is still scheduled.
C36_Witness ==
    /\ CronLockFree
    /\ removed # {}
    /\ Len(jobObjs) = MaxJobs
    /\ \E id \in cronJobs : launches[id] # <<>> /\ id \in Range(cronHeap)

\* C37: two concurrent GetOrCreate calls for the same key that is not yet in
\* the cache return the same session object.  A worker at "cachePut" has
\* missed the cache and holds the object it is going to return.
C37_ConcurrentGetOrCreateSameObject ==
    \A w1, w2 \in Workers :
        (/\ w1 # w2
         /\ workers[w1].pc = "cachePut"
         /\ workers[w2].pc = "cachePut"
         /\ workers[w1].key = workers[w2].key)
        => workers[w1].sess = workers[w2].sess

\* the sleep after the i-th failed poll opens a run of hard errors: nothing
\* failed before it, or the delay had been reset by a successful poll
OpensBackoff(i) ==
    /\ slept[i].err = "hard error"
    /\ i = 1 \/ slept[i].was = baseDelay

\* C38: the sleeps after consecutive hard poll errors start at 1 s, double with
\* each further hard error and never exceed 30 s; the sleep after a transient
\* transport error is 2 s.
C38_PollBackoff ==
    \A i \in 1..Len(slept) :
        /\ slept[i].err = "temporary error" => slept[i].delay = 2
        /\ slept[i].err = "hard error" => slept[i].delay <= maxDelay
        /\ OpensBackoff(i) => slept[i].delay = baseDelay
        /\ (/\ i > 1
            /\ ~OpensBackoff(i)
            /\ slept[i].err = "hard error"
            /\ slept[i - 1].err = "hard error")
           => slept[i].delay = (IF 2 * slept[i - 1].delay > maxDelay THEN maxDelay
                                ELSE 2 * slept[i - 1].delay)

\* the every_seconds of the call that made job id, in ticks
RequestedEvery(id) == toolRuns[id].params.every_seconds

\* C40: a periodic job made through the cron tool with every_seconds = s, a
\* whole or a fractional number of seconds, is stored with an interval of s
\* seconds, never zero, and its successive launches are at least s apart.
C40_IntervalIsEverySeconds ==
    \A id \in 1..Len(jobObjs) :
        /\ jobObjs[id].Schedule.EveryMs = RequestedEvery(id)
        /\ jobObjs[id].Schedule.EveryMs > 0
        /\ \A i \in 1..(Len(launches[id]) - 1) :
               launches[id][i + 1] - launches[id][i] >= RequestedEvery(id)

\* the concatenation of the strings of a sequence, in order
RECURSIVE ConcatParts(_)
ConcatParts(strings) ==
    IF strings = <<>> THEN <<>> ELSE Head(strings) \o ConcatParts(Tail(strings))

\* what the returned parts are like: none is empty, none is longer than
\* maxLen, and together they are the text
SplitReturnsGoodParts ==
    splitPc = "returned" =>
        /\ \A i \in 1..Len(splitParts) :
               splitParts[i] # <<>> /\ Len(splitParts[i]) <= splitMax
        /\ ConcatParts(splitParts) = splitIn

\* the loop ends: a call that ends with non-empty parts of the text has
\* appended at most one part per byte of the text
SplitTerminates == splitPc = "loop" => Len(splitParts) <= Len(splitIn)

\* C39: splitMessage(text, maxLen) terminates for every text and maxLen > 0
\* and returns non-empty parts, each at most maxLen long, whose concatenation
\* in order is the text.
C39_SplitMessage == SplitTerminates /\ SplitReturnsGoodParts

\* the state after construction of the bus, the scheduler, the subagent manager,
\* the session manager and the agent loop
Init == InitBus(MaxBuffer) /\ InitCron /\ InitSub /\ InitAgent /\ InitTools

\* the same, for a bus of any buffer size up to MaxBuffer and a sessions
\* directory that holds the file of a session of three pairs
InitTurn ==
    \E size \in 1..MaxBuffer :
        InitBus(size) /\ InitCron /\ InitSub /\ InitAgentOn(FileOf(K1, SavedSession(K1, 3)))
            /\ InitTools

\* the same, on a sessions directory left by earlier runs
InitWorkspace ==
    \E workspace \in Workspaces :
        InitBus(MaxBuffer) /\ InitCron /\ InitSub /\ InitAgentOn(workspace) /\ InitTools

\* the same, for a bus of any buffer size up to MaxBuffer
InitAnyBuffer == \E size \in 1..MaxBuffer : InitBus(size) /\ InitCron /\ InitSub /\ InitAgent /\ InitTools

\* the same, with the adapters constructed with an allowlist of the configuration
InitAllowLists ==
    \E allowed \in AllowLists :
        /\ InitBus(MaxBuffer) /\ InitCron /\ InitSub /\ InitAgent
        /\ InitToolsOn([adapter \in Adapters |-> allowed])

\* the same, on a sessions directory that holds the file of a session of more
\* than keepCount entries
InitLongSession ==
    /\ InitBus(MaxBuffer) /\ InitCron /\ InitSub /\ InitTools
    /\ InitAgentOn(FileOf(K1, SavedSession(K1, ManyPairs)))

SpecBus == InitAnyBuffer /\ [][NextBus]_vars

SpecCron == Init /\ [][NextCron]_vars

SpecSub == Init /\ [][NextSub]_vars

SpecAgent == Init /\ [][NextAgent]_vars

SpecTurn == InitTurn /\ [][NextTurn]_vars

SpecSession == InitWorkspace /\ [][NextSession]_vars

SpecConsolidation == InitLongSession /\ [][NextConsolidation]_vars

SpecSave == InitLongSession /\ [][NextSave]_vars

SpecCronTool == Init /\ [][NextCronTool]_vars

SpecSplit == Init /\ [][NextSplit]_vars

SpecPoll == Init /\ [][NextPoll]_vars

SpecShutdown == Init /\ [][NextShutdown]_vars

SpecTools == Init /\ [][NextTools]_vars

SpecFilesystem == Init /\ [][NextFilesystem]_vars

SpecChannels == InitAllowLists /\ [][NextChannels]_vars

Spec == SpecBus

====
